---- MODULE Spec2Model ----
(***************************************************************************)
(* Point cloud processing of the 3Dscan repository:                        *)
(*   - the background worker  src/src/js/workers/pointCloudWorker.js       *)
(*   - the main-thread module src/src/js/pointCloudProcessor.js            *)
(*     (PointCloudProcessor: worker hand-off, local fallbacks, octree)     *)
(*                                                                         *)
(* Numbers.  JavaScript numbers are modelled by integers in fixed point:   *)
(* worker buffers, thresholds, voxel sizes and sampling rates are counted  *)
(* in hundredths (0.01 is 1, 5.0 is 500, 10.0 is 1000).  An optional       *)
(* JavaScript value is a tuple: <<>> is undefined, <<v>> is the value v.   *)
(***************************************************************************)
EXTENDS Integers, Sequences, FiniteSets, TLC

VARIABLES
  inbox,          \* worker: events queued for self.onmessage, oldest first
  wpc,            \* worker: position of the running onmessage handler
  wmsg,           \* worker: e.data of the event being handled
  wdata,          \* worker: processPointCloud's local processedData
  runLog,         \* every self.postMessage of the current (or last) handler run
  stageLog,       \* stages executed by the current (or last) run, with input/output
  cancelSeen,     \* a cancel request arrived while the current run was active
  wtodo,          \* worker: stages the running handler has still to execute
  loop,           \* worker: the running per-point loop (SpecProgress), or Undefined
  toMain,         \* worker messages queued for the processor's worker.onmessage
  windowWorker,   \* the browser supports window.Worker
  inited,         \* PointCloudProcessor.init() has run (DOMContentLoaded)
  worker,         \* processor: worker is not null
  rawPointData,   \* processor: null (Undefined) or Some(points)
  processedPointData,
  octree,         \* processor: null (Undefined) or Some(root node)
  octreeFrom,     \* the arguments of the private buildOctree call that built octree
  processingCallbacks,  \* processor: requestId -> the promise its callback settles
  promises,       \* the promises the public API has returned, oldest first
  pendingThen,    \* reactions queued by processDataLocally(...).then(...)
  analysisResults,
  calls,          \* number of calls of the public API so far
  activeExport,   \* ExportManager: null (Undefined) or Some(export in progress)
  exportSettings, \* ExportManager: the settings object
  exportWorker,   \* ExportManager: exportWorker is not null
  exportInbox,    \* messages posted to the export worker, oldest first
  exportOutbox,   \* export worker messages queued for exportWorker.onmessage
  exportLast,     \* the last ExportManager operation and what it returned
  exportCalls     \* number of calls of ExportManager's API so far

wvars == <<inbox, wpc, wmsg, wdata, runLog, stageLog, cancelSeen, wtodo, loop>>

pstate == <<windowWorker, inited, worker, rawPointData, processedPointData, octree,
            octreeFrom, processingCallbacks, promises, pendingThen, analysisResults,
            calls>>

evars == <<activeExport, exportSettings, exportWorker, exportInbox, exportOutbox,
           exportLast, exportCalls>>

vars == <<wvars, toMain, pstate, evars>>

(***************************************************************************)
(* Optional values                                                         *)
(***************************************************************************)
Last(s) == s[Len(s)]

Undefined == <<>>
Some(v) == <<v>>
\* destructuring default:  const { k = d } = options
Default(v, d) == IF v = Undefined THEN d ELSE v[1]

(***************************************************************************)
(* pointCloudWorker.js: constants                                          *)
(***************************************************************************)
CHUNK_SIZE == 100000
\* 0.01, in hundredths
MIN_DISTANCE == 1
\* 0.5, in hundredths
DEFAULT_SAMPLING_RATE == 50
\* options.voxelSize || 0.05, in hundredths
DEFAULT_VOXEL_SIZE == 5
\* one whole (1.0), in hundredths
ONE == 100

Identity == <<1,0,0,0, 0,1,0,0, 0,0,1,0, 0,0,0,1>>
\* a matrix option that is null: present, but not an array
NullMatrix == <<>>

(***************************************************************************)
(* A message the worker posts.  data, pointCount, progress and text are    *)
(* optional fields; text carries operation / message / error / structure.  *)
(* processTime (a clock reading) is left out.                              *)
(***************************************************************************)
Msg(status, data, pointCount, progress, text) ==
  [status |-> status, data |-> data, pointCount |-> pointCount,
   progress |-> progress, text |-> text]

\* the concatenation of a sequence of sequences
RECURSIVE Flatten(_)
Flatten(points) ==
  IF points = <<>> THEN <<>> ELSE Head(points) \o Flatten(Tail(points))

\* pointData.length / 3
NumPoints(pointData) == Len(pointData) \div 3

\* the point that starts at buffer index i (0-based, as in the source)
PX(pointData, i) == pointData[i + 1]
PY(pointData, i) == pointData[i + 2]
PZ(pointData, i) == pointData[i + 3]

\* "if (i % CHUNK_SIZE === 0) self.postMessage({status:'progress', progress:
\* i / pointData.length, operation})" over the loop  for (i = 0; i < length; i += 3)
\* progress is kept as the pair <<i, length>>
\* faulty variant: a progress message every 1000 buffer elements
ProgressAtEveryThousand(i, len, operation) ==
  IF i % 1000 = 0
    THEN <<Msg("progress", Undefined, Undefined, Some(<<i, len>>), Some(operation))>>
    ELSE <<>>

\* the progress report of the iteration at buffer index i
ProgressAt(i, len, operation) ==
  IF i % CHUNK_SIZE = 0
    THEN <<Msg("progress", Undefined, Undefined, Some(<<i, len>>), Some(operation))>>
    ELSE <<>>

\* the reports of the iterations first..last of the loop, in order (the
\* range is halved so that long loops do not nest deeply)
RECURSIVE IterationReports(_, _, _, _)
IterationReports(first, last, len, operation) ==
  IF first > last THEN <<>>
  ELSE IF first = last THEN ProgressAt(3 * first, len, operation)
  ELSE LET half == (first + last) \div 2
       IN IterationReports(first, half, len, operation)
            \o IterationReports(half + 1, last, len, operation)

LoopProgress(i, len, operation) ==
  IF i >= len THEN <<>>
  ELSE IterationReports(i \div 3, (len - 1) \div 3, len, operation)

(***************************************************************************)
(* Filter stage                                                            *)
(***************************************************************************)
\* the number Infinity: every coordinate and every distance of the model is
\* below it
Infinity == 1000000

\* faulty variant: the comparison is strict, distance < maxDistance
WithinDistanceStrict(x, y, z, maxDistance) ==
  \/ maxDistance = Infinity
  \/ maxDistance > 0 /\ x*x + y*y + z*z < maxDistance * maxDistance

\* Math.sqrt(x*x + y*y + z*z) <= maxDistance
WithinDistance(x, y, z, maxDistance) ==
  \/ maxDistance = Infinity
  \/ maxDistance >= 0 /\ x*x + y*y + z*z <= maxDistance * maxDistance

\* faulty variant: the kept points are collected back to front
RECURSIVE DistanceKeepReversed(_, _, _)
DistanceKeepReversed(pointData, i, maxDistance) ==
  IF i >= Len(pointData) THEN <<>>
  ELSE DistanceKeepReversed(pointData, i + 3, maxDistance)
       \o (IF WithinDistance(PX(pointData, i), PY(pointData, i), PZ(pointData, i), maxDistance)
             THEN <<PX(pointData, i), PY(pointData, i), PZ(pointData, i)>>
             ELSE <<>>)

RECURSIVE DistanceKeep(_, _, _)
DistanceKeep(pointData, i, maxDistance) ==
  IF i >= Len(pointData) THEN <<>>
  ELSE (IF WithinDistance(PX(pointData, i), PY(pointData, i), PZ(pointData, i), maxDistance)
          THEN <<PX(pointData, i), PY(pointData, i), PZ(pointData, i)>>
          ELSE <<>>) \o DistanceKeep(pointData, i + 3, maxDistance)

distanceFilter(pointData, maxDistance) ==
  [data |-> DistanceKeep(pointData, 0, maxDistance),
   msgs |-> LoopProgress(0, Len(pointData), "filtering")]

\* "For demonstration, just returning original data"
statisticalOutlierRemoval(pointData, stdDevMultiplier) ==
  [data |-> pointData, msgs |-> <<>>]

radiusOutlierRemoval(pointData, radius) ==
  [data |-> pointData, msgs |-> <<>>]

\* the method dispatch of filterPointCloud
FilterByMethod(pointData, method, threshold) ==
  IF method = "statistical" THEN statisticalOutlierRemoval(pointData, threshold)
  ELSE IF method = "radius" THEN radiusOutlierRemoval(pointData, threshold)
  ELSE distanceFilter(pointData, threshold)

\* a stage result: the returned buffer, the messages posted on the way, and
\* whether the stage threw (then data is not returned and msgs are those
\* posted before the throw)
filterPointCloud(pointData, options, returnResult) ==
  LET threshold == Default(options.threshold, MIN_DISTANCE)
      method == Default(options.method, "statistical")
      r == FilterByMethod(pointData, method, threshold)
  IN [data |-> r.data,
      msgs |-> (IF returnResult
                  THEN <<Msg("filtering", Undefined, Some(NumPoints(pointData)), Undefined, Undefined)>>
                  ELSE <<>>)
               \o r.msgs
               \o (IF returnResult
                     THEN <<Msg("filtered", Some(r.data), Some(NumPoints(r.data)), Undefined, Undefined)>>
                     ELSE <<>>),
      threw |-> FALSE]

(***************************************************************************)
(* Downsample stage                                                        *)
(***************************************************************************)
\* keep[k] is the outcome of  Math.random() <= rate  for point k (1-based)
RECURSIVE RandomKeep(_, _, _)
RandomKeep(pointData, i, keep) ==
  IF i >= Len(pointData) THEN <<>>
  ELSE (IF keep[(i \div 3) + 1]
          THEN <<PX(pointData, i), PY(pointData, i), PZ(pointData, i)>>
          ELSE <<>>) \o RandomKeep(pointData, i + 3, keep)

\* the outcomes Math.random() <= rate can have: Math.random() is in [0, 1)
CoinFlips(pointData, rate) ==
  IF rate < 0 THEN {[k \in 1..NumPoints(pointData) |-> FALSE]}
  ELSE IF rate >= ONE THEN {[k \in 1..NumPoints(pointData) |-> TRUE]}
  ELSE [1..NumPoints(pointData) -> BOOLEAN]

\* faulty variant: no early return for rate >= 1.0, and the loop's test
\* inverted to Math.random() > rate
randomDownsamplingInverted(pointData, rate, keep) ==
  [data |-> RandomKeep(pointData, 0, [k \in DOMAIN keep |-> ~keep[k]]),
   msgs |-> LoopProgress(0, Len(pointData), "downsampling")]

randomDownsampling(pointData, rate, keep) ==
  IF rate >= ONE THEN [data |-> pointData, msgs |-> <<>>]
  ELSE [data |-> RandomKeep(pointData, 0, keep),
        msgs |-> LoopProgress(0, Len(pointData), "downsampling")]

\* faulty variant: Math.trunc(x / voxelSize), rounding toward zero
VoxelIndexTruncates(x, voxelSize) ==
  IF x >= 0 THEN x \div voxelSize ELSE 0 - ((0 - x) \div voxelSize)

\* Math.floor(x / voxelSize), voxelSize > 0
VoxelIndex(x, voxelSize) == x \div voxelSize

VoxelKey(pointData, i, voxelSize) ==
  <<VoxelIndex(PX(pointData, i), voxelSize),
    VoxelIndex(PY(pointData, i), voxelSize),
    VoxelIndex(PZ(pointData, i), voxelSize)>>

\* faulty variant: a voxel that is already in the Map is left as its first
\* point made it
RECURSIVE VoxelMapKeepsFirst(_, _, _, _)
VoxelMapKeepsFirst(pointData, i, voxelSize, voxels) ==
  IF i >= Len(pointData) THEN voxels
  ELSE LET key == VoxelKey(pointData, i, voxelSize)
           has == \E n \in 1..Len(voxels) : voxels[n].key = key
           upd == IF has THEN voxels
                  ELSE Append(voxels, [key |-> key,
                                       sum |-> <<PX(pointData, i), PY(pointData, i),
                                                 PZ(pointData, i)>>,
                                       count |-> 1])
       IN VoxelMapKeepsFirst(pointData, i + 3, voxelSize, upd)

\* the Map voxels after the first loop, as the sequence of its entries in
\* insertion order: [key, sum, count]
RECURSIVE VoxelMap(_, _, _, _)
VoxelMap(pointData, i, voxelSize, voxels) ==
  IF i >= Len(pointData) THEN voxels
  ELSE LET key == VoxelKey(pointData, i, voxelSize)
           x == PX(pointData, i)
           y == PY(pointData, i)
           z == PZ(pointData, i)
           has == \E n \in 1..Len(voxels) : voxels[n].key = key
           upd == IF has
                    THEN [n \in 1..Len(voxels) |->
                            IF voxels[n].key = key
                              THEN [key |-> key,
                                    sum |-> <<voxels[n].sum[1] + x, voxels[n].sum[2] + y,
                                              voxels[n].sum[3] + z>>,
                                    count |-> voxels[n].count + 1]
                              ELSE voxels[n]]
                    ELSE Append(voxels, [key |-> key, sum |-> <<x, y, z>>, count |-> 1])
       IN VoxelMap(pointData, i + 3, voxelSize, upd)

\* sum / count of the fixed-point coordinates; the quotient is a whole
\* number of hundredths for the inputs of the model
Centroid(voxel) ==
  <<voxel.sum[1] \div voxel.count, voxel.sum[2] \div voxel.count,
    voxel.sum[3] \div voxel.count>>

RECURSIVE VoxelCentroids(_, _)
VoxelCentroids(voxels, n) ==
  IF n > Len(voxels) THEN <<>>
  ELSE Centroid(voxels[n]) \o VoxelCentroids(voxels, n + 1)

\* the progress report of the second pass after `progress` voxels
CentroidProgressAt(progress, totalVoxels) ==
  IF progress % 1000 = 0
    THEN <<Msg("progress", Undefined, Undefined, Some(<<progress, totalVoxels>>),
               Some("voxel-centroid"))>>
    ELSE <<>>

\* the second loop's  if (progress % 1000 === 0)  messages
RECURSIVE CentroidReports(_, _, _)
CentroidReports(first, last, totalVoxels) ==
  IF first > last THEN <<>>
  ELSE IF first = last THEN CentroidProgressAt(first, totalVoxels)
  ELSE LET half == (first + last) \div 2
       IN CentroidReports(first, half, totalVoxels)
            \o CentroidReports(half + 1, last, totalVoxels)

CentroidProgress(progress, totalVoxels) ==
  CentroidReports(progress, totalVoxels, totalVoxels)

voxelDownsampling(pointData, voxelSize) ==
  LET voxels == VoxelMap(pointData, 0, voxelSize, <<>>)
  IN [data |-> VoxelCentroids(voxels, 1),
      msgs |-> LoopProgress(0, Len(pointData), "voxel-downsampling")
               \o CentroidProgress(1, Len(voxels))]

downsamplePointCloud(pointData, options, returnResult, keep) ==
  LET rate == Default(options.rate, DEFAULT_SAMPLING_RATE)
      method == Default(options.method, "random")
      \* options.voxelSize || 0.05
      voxelSize == IF options.voxelSize = Undefined \/ options.voxelSize[1] = 0
                     THEN DEFAULT_VOXEL_SIZE ELSE options.voxelSize[1]
      r == IF method = "voxel" THEN voxelDownsampling(pointData, voxelSize)
           ELSE randomDownsampling(pointData, rate, keep)
  IN [data |-> r.data,
      msgs |-> (IF returnResult
                  THEN <<Msg("downsampling", Undefined, Some(NumPoints(pointData)), Undefined, Undefined)>>
                  ELSE <<>>)
               \o r.msgs
               \o (IF returnResult
                     THEN <<Msg("downsampled", Some(r.data), Some(NumPoints(r.data)), Undefined, Undefined)>>
                     ELSE <<>>),
      threw |-> FALSE]

(***************************************************************************)
(* Transform stage                                                         *)
(***************************************************************************)
\* matrix[n], n 0-based as in the source
M(matrix, n) == matrix[n + 1]

RECURSIVE TransformFrom(_, _, _)
TransformFrom(pointData, i, matrix) ==
  IF i >= Len(pointData) THEN <<>>
  ELSE LET x == PX(pointData, i)
           y == PY(pointData, i)
           z == PZ(pointData, i)
       IN << M(matrix, 0) * x + M(matrix, 1) * y + M(matrix, 2) * z + M(matrix, 3),
             M(matrix, 4) * x + M(matrix, 5) * y + M(matrix, 6) * z + M(matrix, 7),
             M(matrix, 8) * x + M(matrix, 9) * y + M(matrix, 10) * z + M(matrix, 11) >>
            \o TransformFrom(pointData, i + 3, matrix)

\* reading matrix[0] of a null matrix throws a TypeError in the first
\* iteration, before that iteration's progress message
applyTransformation(pointData, matrix) ==
  IF matrix = NullMatrix /\ Len(pointData) > 0
    THEN [data |-> <<>>, msgs |-> <<>>, threw |-> TRUE]
    ELSE [data |-> IF Len(pointData) = 0 THEN <<>> ELSE TransformFrom(pointData, 0, matrix),
          msgs |-> LoopProgress(0, Len(pointData), "transforming"),
          threw |-> FALSE]

transformPointCloud(pointData, options, returnResult) ==
  LET matrix == Default(options.matrix, Identity)
      r == applyTransformation(pointData, matrix)
      pre == IF returnResult
               THEN <<Msg("transforming", Undefined, Some(NumPoints(pointData)), Undefined, Undefined)>>
               ELSE <<>>
  IN IF r.threw
       THEN [data |-> <<>>, msgs |-> pre, threw |-> TRUE]
       ELSE [data |-> r.data,
             msgs |-> pre \o r.msgs
                      \o (IF returnResult
                            THEN <<Msg("transformed", Some(r.data), Some(NumPoints(r.data)), Undefined, Undefined)>>
                            ELSE <<>>),
             threw |-> FALSE]

(***************************************************************************)
(* Optimize (index) stage: the three builders return the data unchanged    *)
(***************************************************************************)
buildOctreeWorker(pointData) ==
  [data |-> pointData,
   msgs |-> <<Msg("info", Undefined, Undefined, Undefined, Some("Building octree structure"))>>]

buildKdTree(pointData) ==
  [data |-> pointData,
   msgs |-> <<Msg("info", Undefined, Undefined, Undefined, Some("Building KD-tree structure"))>>]

reorderPoints(pointData) ==
  [data |-> pointData,
   msgs |-> <<Msg("info", Undefined, Undefined, Undefined,
                  Some("Reordering points for improved memory locality"))>>]

optimizeDataStructure(pointData, options, returnResult) ==
  LET method == Default(options.method, "octree")
      r == IF method = "octree" THEN buildOctreeWorker(pointData)
           ELSE IF method = "kdtree" THEN buildKdTree(pointData)
           ELSE reorderPoints(pointData)
  IN [data |-> r.data,
      msgs |-> (IF returnResult
                  THEN <<Msg("optimizing", Undefined, Some(NumPoints(pointData)), Undefined, Undefined)>>
                  ELSE <<>>)
               \o r.msgs
               \o (IF returnResult
                     THEN <<Msg("optimized", Some(r.data), Undefined, Undefined, Some(method))>>
                     ELSE <<>>),
      threw |-> FALSE]

(***************************************************************************)
(* Requests to the worker: e.data = { cmd, data, options }                 *)
(* The options of a 'process' request are an object whose keys were        *)
(* inserted in the order options.keys; a stage's key holds Some(its        *)
(* option object) when present and Undefined when absent.                  *)
(***************************************************************************)
StageNames == <<"filter", "downsample", "transform", "optimize">>

Request(cmd, data, options) == [cmd |-> cmd, data |-> data, options |-> options]

\* faulty variant: the stages run in the insertion order of the option keys
StagesKeyOrder(options) == options.keys

\* if (options.filter) ... if (options.downsample) ... if (options.transform)
\* ... if (options.optimize): the stages processPointCloud runs, in its order
StagesToRun(options) ==
  SelectSeq(StageNames, LAMBDA k : options[k] # Undefined)

\* the option object a stage is called with
StageOptions(msg, stage) ==
  IF msg.cmd = "process" THEN msg.options[stage][1] ELSE msg.options

\* processPointCloud passes returnResult = false, the switch leaves the default true
ReturnResult(msg) == msg.cmd # "process"

IsTerminal(m) == m.status \in {"completed", "error"}

ErrorMsg(text) == Msg("error", Undefined, Undefined, Undefined, Some(text))

(***************************************************************************)
(* self.onmessage.  The handler runs to completion before the next event   *)
(* is taken; it is split at the stage boundaries so that requests posted   *)
(* by the page while it runs are seen to queue.                            *)
(***************************************************************************)
\* self.postMessage: the messages reach worker.onmessage of the processor
\* when it is the processor that created this worker
PostToMain(msgs) == toMain' = IF worker THEN toMain \o msgs ELSE toMain

\* faulty variant: a new event is taken while a handler is still running
HandlerFreeAlways == TRUE

\* an event is taken only when no handler is running
HandlerFree == wpc = "idle"

WorkerReceive ==
  /\ HandlerFree
  /\ inbox # <<>>
  /\ LET msg == Head(inbox)
     IN /\ inbox' = Tail(inbox)
        /\ wmsg' = Some(msg)
        /\ loop' = loop
        /\ stageLog' = <<>>
        /\ cancelSeen' = FALSE
        /\ UNCHANGED <<pstate, evars>>
        /\ IF msg.cmd = "process"
             THEN /\ runLog' = <<Msg("started", Undefined, Some(NumPoints(msg.data)),
                                     Undefined, Undefined)>>
                  /\ wdata' = msg.data
                  /\ wtodo' = StagesToRun(msg.options)
                  /\ wpc' = "running"
             ELSE IF msg.cmd \in {"filter", "downsample", "transform", "optimize"}
             THEN /\ runLog' = <<>>
                  /\ wdata' = msg.data
                  /\ wtodo' = <<msg.cmd>>
                  /\ wpc' = "running"
             ELSE /\ runLog' = <<ErrorMsg(<<"Unknown command", msg.cmd>>)>>
                  /\ wdata' = <<>>
                  /\ wtodo' = <<>>
                  /\ wpc' = "idle"
        /\ PostToMain(runLog')

\* faulty variant: the error is posted but the run goes on with the next stage
AfterStageIgnoringThrow(r, todo, cmd) ==
  [pc |-> IF cmd = "process" THEN "running" ELSE "idle", todo |-> Tail(todo)]

\* where the handler goes after a stage returned or threw: an exception
\* unwinds to the catch of self.onmessage, which only posts the error
AfterStage(r, todo, cmd) ==
  IF r.threw THEN [pc |-> "idle", todo |-> <<>>]
  ELSE [pc |-> IF cmd = "process" THEN "running" ELSE "idle", todo |-> Tail(todo)]

StageStep(stage, r) ==
  LET next == AfterStage(r, wtodo, wmsg[1].cmd)
      posts == r.msgs \o (IF r.threw THEN <<ErrorMsg(<<"TypeError", stage>>)>> ELSE <<>>)
  IN /\ runLog' = runLog \o posts
     /\ PostToMain(posts)
     /\ UNCHANGED <<pstate, evars>>
     /\ stageLog' = Append(stageLog, [stage |-> stage, input |-> wdata,
                                      output |-> r.data, threw |-> r.threw])
     /\ wdata' = IF r.threw THEN wdata ELSE r.data
     /\ wtodo' = next.todo
     /\ wpc' = next.pc
     /\ UNCHANGED <<inbox, wmsg, loop, cancelSeen>>

AtStage(stage) == wpc = "running" /\ wtodo # <<>> /\ Head(wtodo) = stage

FilterStage ==
  /\ AtStage("filter")
  /\ StageStep("filter",
       filterPointCloud(wdata, StageOptions(wmsg[1], "filter"), ReturnResult(wmsg[1])))

DownsampleStage ==
  /\ AtStage("downsample")
  /\ LET options == StageOptions(wmsg[1], "downsample")
     IN \E keep \in CoinFlips(wdata, Default(options.rate, DEFAULT_SAMPLING_RATE)) :
          StageStep("downsample",
            downsamplePointCloud(wdata, options, ReturnResult(wmsg[1]), keep))

TransformStage ==
  /\ AtStage("transform")
  /\ StageStep("transform",
       transformPointCloud(wdata, StageOptions(wmsg[1], "transform"), ReturnResult(wmsg[1])))

OptimizeStage ==
  /\ AtStage("optimize")
  /\ StageStep("optimize",
       optimizeDataStructure(wdata, StageOptions(wmsg[1], "optimize"), ReturnResult(wmsg[1])))

\* faulty variant: pointCount taken as the buffer length, not length / 3
CompleteCountsElements ==
  /\ wpc = "running"
  /\ wtodo = <<>>
  /\ runLog' = Append(runLog, Msg("completed", Some(wdata), Some(Len(wdata)),
                                  Undefined, Undefined))
  /\ PostToMain(<<Last(runLog')>>)
  /\ wpc' = "idle"
  /\ UNCHANGED <<inbox, wmsg, loop, wdata, stageLog, cancelSeen, wtodo, pstate, evars>>

\* the end of processPointCloud: the 'completed' message
Complete ==
  /\ wpc = "running"
  /\ wtodo = <<>>
  /\ runLog' = Append(runLog, Msg("completed", Some(wdata), Some(NumPoints(wdata)),
                                  Undefined, Undefined))
  /\ PostToMain(<<Last(runLog')>>)
  /\ wpc' = "idle"
  /\ UNCHANGED <<inbox, wmsg, loop, wdata, stageLog, cancelSeen, wtodo, pstate, evars>>

WorkerStep ==
  \/ WorkerReceive
  \/ FilterStage
  \/ DownsampleStage
  \/ TransformStage
  \/ OptimizeStage
  \/ Complete

(***************************************************************************)
(* pointCloudProcessor.js: the octree (private buildOctree)                *)
(* A point is a record [x, y, z].  A node is [boundingBox, points,         *)
(* children]: boundingBox is Undefined (null) or Some([min, max]),         *)
(* children is <<>> (null) or the sequence of the 8 children, child i of   *)
(* the source at position i + 1.  Midpoints are (min + max) / 2; the       *)
(* integer division is exact when the coordinates are multiples of         *)
(* 2^(maxDepth + 1), which the point pools below are.                      *)
(***************************************************************************)
DefaultMaxDepth == 8
DefaultMinPointsPerNode == 5

Point(x, y, z) == [x |-> x, y |-> y, z |-> z]

\* faulty variant: the running minimum is never lowered
Min2KeepsFirst(a, b) == a

Min2(a, b) == IF a <= b THEN a ELSE b
Max2(a, b) == IF a >= b THEN a ELSE b

createNode(boundingBox) ==
  [boundingBox |-> boundingBox, points |-> <<>>, children |-> <<>>]

\* the fold of calculateBoundingBox from point n on; min and max start at
\* +Infinity and -Infinity, so the first point sets both
RECURSIVE BoundingBoxFrom(_, _, _)
BoundingBoxFrom(points, n, bb) ==
  IF n > Len(points) THEN bb
  ELSE LET p == points[n]
       IN BoundingBoxFrom(points, n + 1,
            [min |-> Point(Min2(bb.min.x, p.x), Min2(bb.min.y, p.y), Min2(bb.min.z, p.z)),
             max |-> Point(Max2(bb.max.x, p.x), Max2(bb.max.y, p.y), Max2(bb.max.z, p.z))])

calculateBoundingBox(points) ==
  IF Len(points) = 0 THEN Undefined
  ELSE Some(BoundingBoxFrom(points, 2, [min |-> points[1], max |-> points[1]]))

Mid(a, b) == (a + b) \div 2

\* (i & 1), (i & 2), (i & 4) as booleans
Bit1(i) == i % 2 = 1
Bit2(i) == (i \div 2) % 2 = 1
Bit4(i) == (i \div 4) % 2 = 1

\* faulty variant: the low and the high half are swapped on the x axis
ChildBoxSwapsX(bb, i) ==
  LET midX == Mid(bb.min.x, bb.max.x)
      midY == Mid(bb.min.y, bb.max.y)
      midZ == Mid(bb.min.z, bb.max.z)
  IN [min |-> Point(IF Bit1(i) THEN bb.min.x ELSE midX,
                    IF Bit2(i) THEN midY ELSE bb.min.y,
                    IF Bit4(i) THEN midZ ELSE bb.min.z),
      max |-> Point(IF Bit1(i) THEN midX ELSE bb.max.x,
                    IF Bit2(i) THEN bb.max.y ELSE midY,
                    IF Bit4(i) THEN bb.max.z ELSE midZ)]

ChildBox(bb, i) ==
  LET midX == Mid(bb.min.x, bb.max.x)
      midY == Mid(bb.min.y, bb.max.y)
      midZ == Mid(bb.min.z, bb.max.z)
  IN [min |-> Point(IF Bit1(i) THEN midX ELSE bb.min.x,
                    IF Bit2(i) THEN midY ELSE bb.min.y,
                    IF Bit4(i) THEN midZ ELSE bb.min.z),
      max |-> Point(IF Bit1(i) THEN bb.max.x ELSE midX,
                    IF Bit2(i) THEN bb.max.y ELSE midY,
                    IF Bit4(i) THEN bb.max.z ELSE midZ)]

\* faulty variant: the comparisons are >=, a tie goes to the high child
ChildIndexTiesHigh(bb, point) ==
  (IF point.x >= Mid(bb.min.x, bb.max.x) THEN 1 ELSE 0)
  + (IF point.y >= Mid(bb.min.y, bb.max.y) THEN 2 ELSE 0)
  + (IF point.z >= Mid(bb.min.z, bb.max.z) THEN 4 ELSE 0)

\* faulty variant: the z bit is written 8 instead of 4: no child has that index
ChildIndexWrongBit(bb, point) ==
  (IF point.x > Mid(bb.min.x, bb.max.x) THEN 1 ELSE 0)
  + (IF point.y > Mid(bb.min.y, bb.max.y) THEN 2 ELSE 0)
  + (IF point.z > Mid(bb.min.z, bb.max.z) THEN 8 ELSE 0)

\* ((point.x > midX) ? 1 : 0) + ((point.y > midY) ? 2 : 0) + ((point.z > midZ) ? 4 : 0)
ChildIndex(bb, point) ==
  (IF point.x > Mid(bb.min.x, bb.max.x) THEN 1 ELSE 0)
  + (IF point.y > Mid(bb.min.y, bb.max.y) THEN 2 ELSE 0)
  + (IF point.z > Mid(bb.min.z, bb.max.z) THEN 4 ELSE 0)

RECURSIVE subdivideNode(_, _, _, _)
subdivideNode(node, depth, maxDepth, minPointsPerNode) ==
  LET bb == node.boundingBox[1]
      assigned == [i \in 1..8 |->
                     [boundingBox |-> Some(ChildBox(bb, i - 1)),
                      points |-> SelectSeq(node.points,
                                           LAMBDA p : ChildIndex(bb, p) = i - 1),
                      children |-> <<>>]]
      children == [i \in 1..8 |->
                     IF depth < maxDepth /\ Len(assigned[i].points) > minPointsPerNode
                       THEN subdivideNode(assigned[i], depth + 1, maxDepth, minPointsPerNode)
                       ELSE assigned[i]]
  IN [boundingBox |-> node.boundingBox, points |-> <<>>, children |-> children]

\* maxDepth and minPointsPerNode are optional arguments
buildOctree(points, maxDepthArg, minPointsArg) ==
  LET maxDepth == Default(maxDepthArg, DefaultMaxDepth)
      minPointsPerNode == Default(minPointsArg, DefaultMinPointsPerNode)
      root == [boundingBox |-> calculateBoundingBox(points),
               points |-> points, children |-> <<>>]
  IN IF Len(points) > minPointsPerNode
       THEN subdivideNode(root, 0, maxDepth, minPointsPerNode)
       ELSE root

(***************************************************************************)
(* pointCloudProcessor.js: the main-thread fallbacks                       *)
(***************************************************************************)
\* 0.05, in hundredths
DefaultRadius == 5
DefaultMinNeighbors == 3
DefaultFactor == 2

\* Math.sqrt(dx^2 + dy^2 + dz^2) < radius
CloserThan(p, q, radius) ==
  /\ radius > 0
  /\ (p.x - q.x) * (p.x - q.x) + (p.y - q.y) * (p.y - q.y)
       + (p.z - q.z) * (p.z - q.z) < radius * radius

\* the inner loop's neighborCount; it stops counting at minNeighbors
NeighborCount(points, i, radius, minNeighbors) ==
  LET near == Cardinality({j \in 1..Len(points) : j # i /\ CloserThan(points[i], points[j], radius)})
  IN IF minNeighbors >= 1 /\ near > minNeighbors THEN minNeighbors ELSE near

RECURSIVE NoiseKeep(_, _, _, _)
NoiseKeep(points, i, radius, minNeighbors) ==
  IF i > Len(points) THEN <<>>
  ELSE (IF NeighborCount(points, i, radius, minNeighbors) >= minNeighbors
          THEN <<points[i]>> ELSE <<>>)
       \o NoiseKeep(points, i + 1, radius, minNeighbors)

\* params = { radius, minNeighbors }, both optional
applyNoiseFilterLocal(points, params) ==
  NoiseKeep(points, 1, Default(params.radius, DefaultRadius),
            Default(params.minNeighbors, DefaultMinNeighbors))

\* for (i = 0; i < points.length; i += factor) result.push(points[i])
RECURSIVE EveryNth(_, _, _)
EveryNth(points, i, factor) ==
  IF i >= Len(points) THEN <<>>
  ELSE <<points[i + 1]>> \o EveryNth(points, i + factor, factor)

applyDownsamplingLocal(points, factorArg) ==
  LET factor == Default(factorArg, DefaultFactor)
  IN IF factor <= 1 THEN points ELSE EveryNth(points, 0, factor)

\* x / w; the matrices of the model have w = 1
Quot(a, w) == a \div w

TransformPointLocal(point, matrix) ==
  LET x == M(matrix, 0) * point.x + M(matrix, 4) * point.y + M(matrix, 8) * point.z + M(matrix, 12)
      y == M(matrix, 1) * point.x + M(matrix, 5) * point.y + M(matrix, 9) * point.z + M(matrix, 13)
      z == M(matrix, 2) * point.x + M(matrix, 6) * point.y + M(matrix, 10) * point.z + M(matrix, 14)
      w == M(matrix, 3) * point.x + M(matrix, 7) * point.y + M(matrix, 11) * point.z + M(matrix, 15)
  IN Point(Quot(x, w), Quot(y, w), Quot(z, w))

\* if (!matrix) return points
applyTransformLocal(points, matrixArg) ==
  IF matrixArg = Undefined THEN points
  ELSE [n \in 1..Len(points) |-> TransformPointLocal(points[n], matrixArg[1])]

\* options = { noiseFilter, noiseFilterParams, downsample, downsampleFactor,
\*             transform, transformMatrix }
processDataLocally(points, options) ==
  LET filtered == IF options.noiseFilter
                    THEN applyNoiseFilterLocal(points, options.noiseFilterParams)
                    ELSE points
      sampled == IF options.downsample
                   THEN applyDownsamplingLocal(filtered, options.downsampleFactor)
                   ELSE filtered
  IN IF options.transform
       THEN applyTransformLocal(sampled, options.transformMatrix)
       ELSE sampled

\* positions only; every colour is 1.0 for points without r, g, b
generateBufferLocal(points) ==
  [positions |-> Flatten([n \in 1..Len(points) |-> <<points[n].x, points[n].y, points[n].z>>]),
   count |-> Len(points)]

\* pointCount, boundingBox and dimensions; center, volume and density are
\* quotients and products of these and are left out
analyzeDataLocal(points) ==
  IF Len(points) = 0 THEN [error |-> "no data"]
  ELSE LET bb == calculateBoundingBox(points)[1]
       IN [pointCount |-> Len(points),
           boundingBox |-> bb,
           dimensions |-> Point(bb.max.x - bb.min.x, bb.max.y - bb.min.y,
                                bb.max.z - bb.min.z)]

\* Matrix4.translation(tx, ty, tz) of app.js
Matrix4Translation(tx, ty, tz) == <<1,0,0,0, 0,1,0,0, 0,0,1,0, tx,ty,tz,1>>

(***************************************************************************)
(* pointCloudProcessor.js: PointCloudProcessor                             *)
(***************************************************************************)
\* most calls of the public API in one behaviour
MaxCalls == 3
\* the request ids generateRequestId can return are 1..MaxReqId
MaxReqId == 2

\* 'req_' + Date.now() + '_' + Math.floor(Math.random() * 1000): two calls in
\* the same millisecond can draw the same id
RequestIds == 1..MaxReqId

NoCallbacks == [k \in {} |-> 0]
SetCallback(cbs, id, v) == [k \in (DOMAIN cbs) \cup {id} |-> IF k = id THEN v ELSE cbs[k]]
DeleteCallback(cbs, id) == [k \in (DOMAIN cbs) \ {id} |-> cbs[k]]

Promise(api, state) == [api |-> api, state |-> state]
Settle(ps, n, state) == [ps EXCEPT ![n].state = state]

\* a request of the processor: { type, requestId, points, ... }.  It has no
\* cmd, data or options: the worker's destructuring reads them as undefined.
ProcessorRequest(type, requestId, points, args) ==
  [cmd |-> "undefined", data |-> <<>>, options |-> Undefined,
   type |-> type, requestId |-> requestId, points |-> points, args |-> args]

ProcessorInitState ==
  /\ toMain = <<>>
  /\ inited = FALSE
  /\ worker = FALSE
  /\ rawPointData = Undefined
  /\ processedPointData = Undefined
  /\ octree = Undefined
  /\ octreeFrom = Undefined
  /\ processingCallbacks = NoCallbacks
  /\ promises = <<>>
  /\ pendingThen = <<>>
  /\ analysisResults = Undefined
  /\ calls = 0

\* init(): initWorker() and the subscription to 'pointCloud:newData'
ProcInit ==
  /\ ~inited
  /\ inited' = TRUE
  /\ worker' = windowWorker
  /\ UNCHANGED <<wvars, toMain, windowWorker, evars, rawPointData, processedPointData, octree,
                 octreeFrom, processingCallbacks, promises, pendingThen, analysisResults, calls>>

\* one more call of the public API
CanCall == calls < MaxCalls /\ calls' = calls + 1

\* onNewPointsReceived is subscribed by init(); EventBus.publish is taken to
\* call its subscribers before it returns
Subscribed == inited

\* setPointData(points), and through the 'pointCloud:newData' event
\* onNewPointsReceived, which resets the octree.  The handler's call
\* analyzeData() names no binding of the module (analyzeData is only a
\* property of the returned API object), so it posts no request.
SetPointData(points) ==
  /\ CanCall
  /\ rawPointData' = Some(points)
  /\ processedPointData' = Some(points)
  /\ octree' = IF Subscribed THEN Undefined ELSE octree
  /\ octreeFrom' = IF Subscribed THEN Undefined ELSE octreeFrom
  /\ UNCHANGED <<wvars, toMain, windowWorker, evars, inited, worker, processingCallbacks,
                 promises, pendingThen, analysisResults>>

\* reject(new Error(...)) before anything else happens
RejectedCall(api) ==
  /\ promises' = Append(promises, Promise(api, "rejected"))
  /\ UNCHANGED <<wvars, toMain, windowWorker, evars, inited, worker, rawPointData,
                 processedPointData, octree, octreeFrom, processingCallbacks,
                 pendingThen, analysisResults>>

\* the worker branch of an API call: store the callback, post the request
PostedCall(api, type, points, args) ==
  \E requestId \in RequestIds :
    /\ processingCallbacks' =
         SetCallback(processingCallbacks, requestId, Len(promises) + 1)
    /\ promises' = Append(promises, Promise(api, "pending"))
    /\ inbox' = Append(inbox, ProcessorRequest(type, requestId, points, args))
    /\ UNCHANGED <<wpc, wmsg, loop, wdata, runLog, stageLog, cancelSeen, wtodo, toMain,
                   windowWorker, evars, inited, worker, rawPointData, processedPointData,
                   octree, octreeFrom, pendingThen, analysisResults>>

ProcessData(options) ==
  /\ CanCall
  /\ IF rawPointData = Undefined THEN RejectedCall("processData")
     ELSE IF worker THEN PostedCall("processData", "processData", rawPointData[1], options)
     ELSE /\ promises' = Append(promises, Promise("processData", "pending"))
          /\ pendingThen' = Append(pendingThen,
                                   [promise |-> Len(promises) + 1,
                                    result |-> processDataLocally(rawPointData[1], options)])
          /\ UNCHANGED <<wvars, toMain, windowWorker, evars, inited, worker, rawPointData,
                         processedPointData, octree, octreeFrom, processingCallbacks,
                         analysisResults>>

\* .then(result => { processedPointData = result; resolve({ points: result }) })
ProcessDataThen ==
  /\ pendingThen # <<>>
  /\ processedPointData' = Some(Head(pendingThen).result)
  /\ promises' = Settle(promises, Head(pendingThen).promise, "resolved")
  /\ pendingThen' = Tail(pendingThen)
  /\ UNCHANGED <<wvars, toMain, windowWorker, evars, inited, worker, rawPointData, octree,
                 octreeFrom, processingCallbacks, analysisResults, calls>>

\* the synchronous fallbacks: processedPointData = result; resolve(...)
LocalResult(api, result) ==
  /\ processedPointData' = Some(result)
  /\ promises' = Append(promises, Promise(api, "resolved"))
  /\ UNCHANGED <<wvars, toMain, windowWorker, evars, inited, worker, rawPointData, octree,
                 octreeFrom, processingCallbacks, pendingThen, analysisResults>>

ApplyFilter(filterType, params) ==
  /\ CanCall
  /\ IF processedPointData = Undefined THEN RejectedCall("applyFilter")
     ELSE IF worker
       THEN PostedCall("applyFilter", "applyFilter", processedPointData[1],
                       [filterType |-> filterType, params |-> params])
     ELSE IF filterType = "noise"
       THEN LocalResult("applyFilter", applyNoiseFilterLocal(processedPointData[1], params))
     ELSE IF filterType = "downsample"
       THEN LocalResult("applyFilter",
                        applyDownsamplingLocal(processedPointData[1], params.factor))
     ELSE RejectedCall("applyFilter")

ApplyTransform(transformMatrix) ==
  /\ CanCall
  /\ IF processedPointData = Undefined THEN RejectedCall("applyTransform")
     ELSE IF worker
       THEN PostedCall("applyTransform", "applyTransform", processedPointData[1],
                       transformMatrix)
     ELSE LocalResult("applyTransform",
                      applyTransformLocal(processedPointData[1], transformMatrix))

AnalyzeData ==
  /\ CanCall
  /\ IF processedPointData = Undefined THEN RejectedCall("analyzeData")
     ELSE IF worker
       THEN PostedCall("analyzeData", "analyzeData", processedPointData[1], Undefined)
     ELSE /\ analysisResults' = Some(analyzeDataLocal(processedPointData[1]))
          /\ promises' = Append(promises, Promise("analyzeData", "resolved"))
          /\ UNCHANGED <<wvars, toMain, windowWorker, evars, inited, worker, rawPointData,
                         processedPointData, octree, octreeFrom, processingCallbacks,
                         pendingThen>>

GenerateBuffer ==
  /\ CanCall
  /\ IF processedPointData = Undefined THEN RejectedCall("generateBuffer")
     ELSE IF worker
       THEN PostedCall("generateBuffer", "generateBuffer", processedPointData[1], Undefined)
     ELSE /\ promises' = Append(promises, Promise("generateBuffer", "resolved"))
          /\ UNCHANGED <<wvars, toMain, windowWorker, evars, inited, worker, rawPointData,
                         processedPointData, octree, octreeFrom, processingCallbacks,
                         pendingThen, analysisResults>>

\* faulty variant: the cached octree is never reused
OctreeCachedNever == FALSE

\* if (!octree) { octree = buildOctree(...) }
OctreeCached == octree # Undefined

\* the public buildOctree(maxDepth, minPointsPerNode)
BuildOctree(maxDepthArg, minPointsArg) ==
  /\ CanCall
  /\ IF processedPointData = Undefined THEN RejectedCall("buildOctree")
     ELSE /\ IF OctreeCached
               THEN UNCHANGED <<octree, octreeFrom>>
               ELSE /\ octree' = Some(buildOctree(processedPointData[1], maxDepthArg,
                                                  minPointsArg))
                    /\ octreeFrom' = Some([points |-> processedPointData[1],
                                           maxDepth |-> maxDepthArg,
                                           minPointsPerNode |-> minPointsArg])
          /\ promises' = Append(promises, Promise("buildOctree", "resolved"))
          /\ UNCHANGED <<wvars, toMain, windowWorker, evars, inited, worker, rawPointData,
                         processedPointData, processingCallbacks, pendingThen,
                         analysisResults>>

\* terminate(): the worker thread, its event queue and its undelivered
\* messages go away
Terminate ==
  /\ worker
  /\ worker' = FALSE
  /\ inbox' = <<>>
  /\ toMain' = <<>>
  /\ wpc' = "idle"
  /\ wtodo' = <<>>
  /\ UNCHANGED <<wmsg, loop, wdata, runLog, stageLog, cancelSeen, windowWorker, evars, inited,
                 rawPointData, processedPointData, octree, octreeFrom,
                 processingCallbacks, promises, pendingThen, analysisResults, calls>>

\* const { type, data, requestId } = e.data
Field(m, name) == IF name \in DOMAIN m THEN Some(m[name]) ELSE Undefined

\* what the stored callbacks of processData, applyFilter and applyTransform
\* do with (result, error), and those of analyzeData and generateBuffer
CallbackEffect(n, result, isError) ==
  /\ promises' = Settle(promises, n, IF isError THEN "rejected" ELSE "resolved")
  /\ IF isError THEN UNCHANGED <<processedPointData, analysisResults>>
     ELSE IF promises[n].api \in {"processData", "applyFilter", "applyTransform"}
       THEN processedPointData' = Some(result.points) /\ UNCHANGED analysisResults
     ELSE IF promises[n].api = "analyzeData"
       THEN analysisResults' = Some(result) /\ UNCHANGED processedPointData
     ELSE UNCHANGED <<processedPointData, analysisResults>>

\* if (processingCallbacks[requestId]) { call it; delete it }
Dispatch(requestId, result, isError) ==
  IF requestId # Undefined /\ requestId[1] \in DOMAIN processingCallbacks
    THEN /\ CallbackEffect(processingCallbacks[requestId[1]], result, isError)
         /\ processingCallbacks' = DeleteCallback(processingCallbacks, requestId[1])
    ELSE UNCHANGED <<processingCallbacks, promises, processedPointData, analysisResults>>

\* worker.onmessage of the processor: a macrotask, so it runs when no promise
\* reaction is pending
OnMessage ==
  /\ toMain # <<>>
  /\ pendingThen = <<>>
  /\ LET m == Head(toMain)
         type == Field(m, "type")
         data == Field(m, "data")
         requestId == Field(m, "requestId")
     IN /\ toMain' = Tail(toMain)
        /\ IF type = Some("filterComplete")
             THEN \* processedPointData = data.points, then the callback
                  IF requestId # Undefined /\ requestId[1] \in DOMAIN processingCallbacks
                    THEN Dispatch(requestId, data[1], FALSE)
                    ELSE /\ processedPointData' = Some(data[1].points)
                         /\ UNCHANGED <<processingCallbacks, promises, analysisResults>>
           ELSE IF type = Some("analysisComplete")
             THEN IF requestId # Undefined /\ requestId[1] \in DOMAIN processingCallbacks
                    THEN Dispatch(requestId, data[1].results, FALSE)
                    ELSE /\ analysisResults' = Some(data[1].results)
                         /\ UNCHANGED <<processingCallbacks, promises, processedPointData>>
           ELSE IF type = Some("bufferGenerated")
             THEN Dispatch(requestId, data[1].buffer, FALSE)
           ELSE IF type = Some("error")
             THEN Dispatch(requestId, data[1], TRUE)
           ELSE \* 'progress' only publishes an event; any other type: no case
                UNCHANGED <<processingCallbacks, promises, processedPointData,
                            analysisResults>>
  /\ UNCHANGED <<wvars, windowWorker, evars, inited, worker, rawPointData, octree, octreeFrom,
                 pendingThen, calls>>

(***************************************************************************)
(* ExportManager (pointCloudProcessor.js) and its worker (exportWorker.js) *)
(* EventBus publications and the registered callbacks change no state of   *)
(* the manager and are left out.                                           *)
(***************************************************************************)
\* most calls of the manager's API in a behaviour
MaxExportCalls == 4
\* values of Date.now()
MaxExportId == 2

\* Object.assign(target, source): a shallow merge, source keys win
Assign(target, source) ==
  [k \in DOMAIN target \cup DOMAIN source |->
     IF k \in DOMAIN source THEN source[k] ELSE target[k]]

NoSettings == [k \in {} |-> Undefined]

DefaultExportSettings ==
  [format |-> "ply", quality |-> "high",
   metadata |-> [creator |-> "LiDAR Web Scanner", creationDate |-> 0,
                 device |-> "", notes |-> ""]]

ExportManagerInit ==
  /\ activeExport = Undefined
  /\ exportSettings = DefaultExportSettings
  /\ exportWorker = FALSE
  /\ exportInbox = <<>>
  /\ exportOutbox = <<>>
  /\ exportLast = [op |-> "none", result |-> Undefined]
  /\ exportCalls = 0

\* `lidar-scan-${dateStr}.${format}`
generateFilename(format, now) == <<"lidar-scan", now, format>>

\* exportSettings.metadata after prepareMetadata(customMetadata) at time now
prepareMetadata(customMetadata, now) ==
  Assign(Assign(Assign(exportSettings.metadata, [device |-> "userAgent"]),
                Default(customMetadata, NoSettings)),
         [creationDate |-> now])

Returned(op, result) == exportLast' = [op |-> op, result |-> Some(result)]

\* faulty variant: no test of activeExport, a second export replaces the first
StartExportUnguarded(customSettings, now, cloneable) ==
  LET mergedSettings == Assign(exportSettings, customSettings)
      metadata == prepareMetadata(
                    IF "metadata" \in DOMAIN customSettings
                      THEN Some(customSettings.metadata) ELSE Undefined, now)
      filename == IF "filename" \in DOMAIN customSettings
                    THEN customSettings.filename
                    ELSE generateFilename(mergedSettings.format, now)
  IN /\ exportWorker \/ windowWorker
     /\ cloneable
     /\ exportWorker' = TRUE
     /\ exportSettings' = Assign(exportSettings, [metadata |-> metadata])
     /\ activeExport' = Some([id |-> now, format |-> mergedSettings.format,
                              filename |-> filename])
     /\ exportInbox' = Append(exportInbox,
                              [type |-> "start", format |-> mergedSettings.format,
                               filename |-> filename])
     /\ Returned("startExport", [success |-> TRUE, exportId |-> now])
     /\ UNCHANGED exportOutbox

\* startExport(pointCloudData, customSettings) at time Date.now() = now;
\* cloneable: postMessage can copy pointCloudData (it throws otherwise)
StartExport(customSettings, now, cloneable) ==
  IF activeExport # Undefined
    THEN /\ Returned("startExport",
                     [success |-> FALSE, error |-> "Export already in progress"])
         /\ UNCHANGED <<activeExport, exportSettings, exportWorker, exportInbox,
                        exportOutbox>>
  ELSE IF ~exportWorker /\ ~windowWorker
    THEN \* new Worker(...) throws: the catch calls handleExportError
         /\ activeExport' = Undefined
         /\ Returned("startExport", [success |-> FALSE, error |-> "Worker"])
         /\ UNCHANGED <<exportSettings, exportWorker, exportInbox, exportOutbox>>
  ELSE
    LET mergedSettings == Assign(exportSettings, customSettings)
        metadata == prepareMetadata(
                      IF "metadata" \in DOMAIN customSettings
                        THEN Some(customSettings.metadata) ELSE Undefined, now)
        filename == IF "filename" \in DOMAIN customSettings
                      THEN customSettings.filename
                      ELSE generateFilename(mergedSettings.format, now)
    IN /\ exportWorker' = TRUE
       /\ exportSettings' = Assign(exportSettings, [metadata |-> metadata])
       /\ IF cloneable
            THEN /\ activeExport' = Some([id |-> now, format |-> mergedSettings.format,
                                          filename |-> filename])
                 /\ exportInbox' = Append(exportInbox,
                                          [type |-> "start",
                                           format |-> mergedSettings.format,
                                           filename |-> filename])
                 /\ Returned("startExport", [success |-> TRUE, exportId |-> now])
            ELSE \* postMessage throws: the catch calls handleExportError
                 /\ activeExport' = Undefined
                 /\ exportInbox' = exportInbox
                 /\ Returned("startExport", [success |-> FALSE, error |-> "DataClone"])
       /\ UNCHANGED exportOutbox

\* cancelExport()
CancelExport ==
  IF activeExport = Undefined
    THEN /\ Returned("cancelExport", FALSE)
         /\ UNCHANGED <<activeExport, exportSettings, exportWorker, exportInbox,
                        exportOutbox>>
    ELSE /\ exportInbox' = Append(exportInbox, [type |-> "cancel"])
         /\ activeExport' = Undefined
         /\ Returned("cancelExport", TRUE)
         /\ UNCHANGED <<exportSettings, exportWorker, exportOutbox>>

\* updateSettings(newSettings)
UpdateSettings(newSettings) ==
  IF activeExport # Undefined
    THEN /\ Returned("updateSettings", FALSE)
         /\ UNCHANGED <<activeExport, exportSettings, exportWorker, exportInbox,
                        exportOutbox>>
    ELSE /\ exportSettings' = Assign(exportSettings, newSettings)
         /\ Returned("updateSettings", TRUE)
         /\ UNCHANGED <<activeExport, exportWorker, exportInbox, exportOutbox>>

\* a call of the manager's API
ExportCall(A) ==
  /\ exportCalls < MaxExportCalls
  /\ exportCalls' = exportCalls + 1
  /\ A
  /\ UNCHANGED <<wvars, toMain, pstate>>

\* exportWorker.js self.onmessage: it knows the types init, export and abort,
\* any other type is answered with an error message
ExportWorkerReceive ==
  /\ exportInbox # <<>>
  /\ exportInbox' = Tail(exportInbox)
  /\ exportOutbox' =
       Append(exportOutbox,
              IF Head(exportInbox).type \in {"init", "abort"}
                THEN [type |-> "progress"]
              ELSE IF Head(exportInbox).type = "export"
                THEN [type |-> "complete"]
              ELSE [type |-> "error"])
  /\ UNCHANGED <<activeExport, exportSettings, exportWorker, exportLast, exportCalls>>
  /\ UNCHANGED <<wvars, toMain, pstate>>

\* exportWorker.onmessage: notifyProgress, handleExportComplete, handleExportError
ExportOnMessage ==
  /\ exportOutbox # <<>>
  /\ exportOutbox' = Tail(exportOutbox)
  /\ activeExport' = IF Head(exportOutbox).type \in {"complete", "error"}
                       THEN Undefined ELSE activeExport
  /\ exportLast' = [op |-> "onmessage", result |-> Some(Head(exportOutbox).type)]
  /\ UNCHANGED <<exportSettings, exportWorker, exportInbox, exportCalls>>
  /\ UNCHANGED <<wvars, toMain, pstate>>

(***************************************************************************)
(* Inputs of the worker                                                    *)
(***************************************************************************)
\* most points of an input buffer
MaxPts == 2

\* (0,0,0), (1,1,1), (10,0,0) in hundredths
WPoints == {<<0, 0, 0>>, <<100, 100, 100>>, <<1000, 0, 0>>}

Buffers == {Flatten(ps) : ps \in UNION {[1..n -> WPoints] : n \in 0..MaxPts}}

\* a worker-layout (row-major) translation by (tx, ty, tz)
RowTranslation(tx, ty, tz) == <<1,0,0,tx, 0,1,0,ty, 0,0,1,tz, 0,0,0,1>>

FilterOption(method, threshold) == [method |-> method, threshold |-> threshold]
DownsampleOption(method, rate, voxelSize) ==
  [method |-> method, rate |-> rate, voxelSize |-> voxelSize]
TransformOption(matrix) == [matrix |-> matrix]
OptimizeOption(method) == [method |-> method]

\* three configurations of the four stages: explicit methods; method names
\* the worker does not know; defaults with a null matrix
Profiles ==
  { [filter |-> FilterOption(Some("distance"), Some(500)),
     downsample |-> DownsampleOption(Some("voxel"), Undefined, Some(200)),
     transform |-> TransformOption(Some(RowTranslation(100, 0, 0))),
     optimize |-> OptimizeOption(Some("octree"))],
    [filter |-> FilterOption(Some("median"), Undefined),
     downsample |-> DownsampleOption(Some("grid"), Undefined, Undefined),
     transform |-> TransformOption(Undefined),
     optimize |-> OptimizeOption(Some("morton"))],
    [filter |-> FilterOption(Undefined, Undefined),
     downsample |-> DownsampleOption(Undefined, Some(100), Undefined),
     transform |-> TransformOption(Some(NullMatrix)),
     optimize |-> OptimizeOption(Some("kdtree"))] }

StageKeys == {"filter", "downsample", "transform", "optimize"}

\* every insertion order of every subset of the stage keys
KeyOrders ==
  {s \in UNION {[1..n -> StageKeys] : n \in 0..4} :
     \A i, j \in 1..Len(s) : i # j => s[i] # s[j]}

InKeys(keys, k) == \E i \in 1..Len(keys) : keys[i] = k

ProcessOptions(keys, profile) ==
  [keys |-> keys,
   filter |-> IF InKeys(keys, "filter") THEN Some(profile.filter) ELSE Undefined,
   downsample |-> IF InKeys(keys, "downsample") THEN Some(profile.downsample) ELSE Undefined,
   transform |-> IF InKeys(keys, "transform") THEN Some(profile.transform) ELSE Undefined,
   optimize |-> IF InKeys(keys, "optimize") THEN Some(profile.optimize) ELSE Undefined]

ProcessRequests ==
  {Request("process", b, ProcessOptions(keys, p)) :
     b \in Buffers, keys \in KeyOrders, p \in Profiles}

\* the single-stage commands, and a command the switch does not know
StageRequests ==
  {Request(k, b, p[k]) : k \in StageKeys, b \in Buffers, p \in Profiles}

OtherRequests == {Request("cancel", <<>>, Undefined), Request("analyze", <<>>, Undefined)}

Requests == ProcessRequests \cup StageRequests \cup OtherRequests

(***************************************************************************)
(* Spec: the worker handling one request, any request of Requests          *)
(***************************************************************************)
WorkerIdleInit ==
  /\ wpc = "idle"
  /\ wmsg = Undefined
  /\ wdata = <<>>
  /\ runLog = <<>>
  /\ stageLog = <<>>
  /\ cancelSeen = FALSE
  /\ wtodo = <<>>
  /\ loop = Undefined

\* the processor has not created the worker: the requests are another page's
Init ==
  /\ \E m \in Requests : inbox = <<m>>
  /\ WorkerIdleInit
  /\ windowWorker = TRUE
  /\ ProcessorInitState
  /\ ExportManagerInit

Next == WorkerStep


Spec == Init /\ [][Next]_vars

(***************************************************************************)
(* Properties of one handler run (Spec)                                    *)
(***************************************************************************)
IsProcessRun == wmsg # Undefined /\ wmsg[1].cmd = "process"

RunOver == wmsg # Undefined /\ wpc = "idle"

Statuses(log) == {log[i].status : i \in 1..Len(log)}

\* the stages whose key is in the options object, in the order
\* Filter, Downsample, Transform, Index/optimize
EnabledStages(options) ==
  SelectSeq(<<"filter", "downsample", "transform", "optimize">>,
            LAMBDA k : InKeys(options.keys, k))

\* C1: in every 'process' run, whatever the key order of the options, the
\* stages executed so far are the first enabled stages in the order filter,
\* downsample, transform, optimize; each one received the output of the one
\* before it (the first one the request's data); a stage whose key is absent
\* never runs; and a completed run has run every enabled stage and posts the
\* last stage's output.
C1_FixedStageOrder ==
  IsProcessRun =>
    LET enabled == EnabledStages(wmsg[1].options)
    IN /\ Len(stageLog) <= Len(enabled)
       /\ \A i \in 1..Len(stageLog) :
            /\ stageLog[i].stage = enabled[i]
            /\ stageLog[i].input =
                 (IF i = 1 THEN wmsg[1].data ELSE stageLog[i - 1].output)
       /\ ("completed" \in Statuses(runLog) =>
             /\ Len(stageLog) = Len(enabled)
             /\ Last(runLog).data =
                  Some(IF stageLog = <<>> THEN wmsg[1].data ELSE Last(stageLog).output))

\* a completed run of all four stages whose keys were inserted in the reverse
\* order, and whose filter dropped a point before the later stages ran
C1_Witness ==
  /\ IsProcessRun
  /\ wmsg[1].options.keys = <<"optimize", "transform", "downsample", "filter">>
  /\ "completed" \in Statuses(runLog)
  /\ Len(stageLog) = 4
  /\ Len(stageLog[1].output) < Len(stageLog[1].input)
  /\ stageLog[3].output # stageLog[3].input

\* C2: the messages of a run are non-terminal messages followed by at most
\* one terminal message, which is the last one; a 'process' run posts only
\* started/progress/info before it, and once the run is over it has posted
\* exactly one terminal message (completed or error).
C2_OneTerminalLast ==
  LET terminals == {i \in 1..Len(runLog) : IsTerminal(runLog[i])}
  IN /\ Cardinality(terminals) <= 1
     /\ terminals \subseteq {Len(runLog)}
     /\ (IsProcessRun =>
           /\ \A i \in 1..Len(runLog) :
                IsTerminal(runLog[i]) \/ runLog[i].status \in {"started", "progress", "info"}
           /\ (RunOver => Cardinality(terminals) = 1)
           /\ (wpc = "running" => terminals = {}))

\* a finished run that posted started, progress and info messages and then
\* 'completed'
C2_Witness ==
  /\ IsProcessRun
  /\ RunOver
  /\ {"started", "progress", "info", "completed"} \subseteq Statuses(runLog)
  /\ Last(runLog).status = "completed"

\* C5: when a stage throws, the run is over: the last message is an error
\* that carries a description, the run posts no 'completed' and no message
\* with point data, and no stage runs after the failing one.
C5_ThrowFailsRun ==
  \A i \in 1..Len(stageLog) :
    stageLog[i].threw =>
      /\ i = Len(stageLog)
      /\ wpc = "idle"
      /\ Last(runLog).status = "error"
      /\ Last(runLog).text # Undefined
      /\ "completed" \notin Statuses(runLog)
      /\ (IsProcessRun => \A n \in 1..Len(runLog) : runLog[n].data = Undefined)

\* a 'process' run whose transform stage threw after the filter stage had
\* run, with the optimize stage enabled and never executed
C5_Witness ==
  /\ IsProcessRun
  /\ Len(stageLog) = 2
  /\ stageLog[1].stage = "filter"
  /\ stageLog[2].stage = "transform"
  /\ stageLog[2].threw
  /\ InKeys(wmsg[1].options.keys, "optimize")
  /\ wtodo = <<>>

\* the method names of section 4 of the specification
KnownMethods(stage) ==
  CASE stage = "filter" -> {"statistical", "radius", "distance"}
    [] stage = "downsample" -> {"random", "voxel"}
    [] stage = "optimize" -> {"octree", "kdtree"}

NamesUnknownMethod(options) ==
  \E stage \in {"filter", "downsample", "optimize"} :
    /\ options[stage] # Undefined
    /\ options[stage][1].method # Undefined
    /\ options[stage][1].method[1] \notin KnownMethods(stage)

\* C7: a config that names an unknown method for filter, downsample or
\* optimize is rejected before any stage executes: no stage runs, no progress
\* or stage output is emitted, and the run does not complete.
C7_UnknownMethodRejected ==
  (IsProcessRun /\ NamesUnknownMethod(wmsg[1].options)) =>
    /\ stageLog = <<>>
    /\ Statuses(runLog) \cap {"progress", "info", "completed"} = {}
    /\ (RunOver => Last(runLog).status = "error")

\* C8: a run with an empty config posts started and then completed, the
\* completed message carries the input buffer unchanged and pointCount equal
\* to the input's length / 3.
C8_EmptyConfigIdentity ==
  (IsProcessRun /\ RunOver /\ wmsg[1].options.keys = <<>>) =>
    /\ Len(runLog) = 2
    /\ runLog[1].status = "started"
    /\ runLog[2].status = "completed"
    /\ runLog[2].data = Some(wmsg[1].data)
    /\ 3 * runLog[2].pointCount[1] = Len(wmsg[1].data)
    /\ stageLog = <<>>

\* a finished run with an empty config over two points
C8_Witness ==
  /\ IsProcessRun
  /\ RunOver
  /\ wmsg[1].options.keys = <<>>
  /\ Len(wmsg[1].data) = 6
  /\ Last(runLog).status = "completed"
  /\ Last(runLog).pointCount = Some(2)

(***************************************************************************)
(* SpecQueue: the page posts requests at any time, also while a handler    *)
(* runs; the worker's event queue holds them.                              *)
(***************************************************************************)
\* most requests waiting in the worker's event queue
MaxQueue == 2

QueueBuffer == <<0, 0, 0, 1000, 0, 0>>

QueueRequests ==
  {Request("process", QueueBuffer, ProcessOptions(keys, p)) :
     keys \in {<<>>, StageNames}, p \in Profiles}
  \cup {Request("filter", QueueBuffer, FilterOption(Some("distance"), Some(500)))}
  \cup OtherRequests

\* worker.postMessage(m) by the page.  A { cmd: 'cancel' } request is how a
\* page signals cancellation across the message boundary.
ClientPost ==
  /\ Len(inbox) < MaxQueue
  /\ \E m \in QueueRequests :
       /\ inbox' = Append(inbox, m)
       /\ cancelSeen' = (cancelSeen \/ (m.cmd = "cancel" /\ wpc = "running"))
  /\ UNCHANGED <<wpc, wmsg, loop, wdata, runLog, stageLog, wtodo, toMain, pstate, evars>>

InitQueue ==
  /\ inbox = <<>>
  /\ WorkerIdleInit
  /\ windowWorker = TRUE
  /\ ProcessorInitState
  /\ ExportManagerInit

NextQueue ==
  \/ ClientPost
  \/ WorkerReceive
  \/ FilterStage
  \/ DownsampleStage
  \/ TransformStage
  \/ OptimizeStage
  \/ Complete

SpecQueue == InitQueue /\ [][NextQueue]_vars

\* C4: a run during which cancellation was signalled does not report
\* Completed and hands back no point data; once it is over its terminal
\* message is Cancelled.
C4_CancelStopsRun ==
  (IsProcessRun /\ cancelSeen) =>
    /\ "completed" \notin Statuses(runLog)
    /\ \A i \in 1..Len(runLog) : runLog[i].data = Undefined
    /\ (RunOver => Last(runLog).status = "cancelled")

\* C6: an event is taken from the queue only when no handler run is active,
\* and if the previous run was a 'process' run its terminal message has been
\* posted: a request posted during a run waits in the queue, and the steps of
\* two runs are never interleaved.
C6_OneActiveRun ==
  [][(inbox # <<>> /\ inbox' = Tail(inbox)) =>
       /\ wpc = "idle"
       /\ (IsProcessRun => (runLog # <<>> /\ IsTerminal(Last(runLog))))]_vars

\* a 'process' request waiting in the queue while a 'process' run is between
\* two of its stages
C6_Witness ==
  /\ IsProcessRun
  /\ wpc = "running"
  /\ Len(stageLog) = 2
  /\ inbox # <<>>
  /\ inbox[1].cmd = "process"

(***************************************************************************)
(* SpecProcessor: PointCloudProcessor with the worker it creates.  Every   *)
(* request the processor posts carries type, not cmd, so the only worker   *)
(* step such a request enables is WorkerReceive (its default branch).      *)
(***************************************************************************)
\* most points of a point set handed to setPointData
MaxPPts == 2

\* coordinates are multiples of 2^(DefaultMaxDepth + 1) hundredths
PPool == {Point(0, 0, 0), Point(512, 512, 1024)}

PointSets == UNION {[1..n -> PPool] : n \in 0..MaxPPts}

LocalOptions ==
  { [noiseFilter |-> FALSE, noiseFilterParams |-> Undefined,
     downsample |-> FALSE, downsampleFactor |-> Undefined,
     transform |-> FALSE, transformMatrix |-> Undefined],
    [noiseFilter |-> TRUE,
     noiseFilterParams |-> [radius |-> Some(2048), minNeighbors |-> Some(1)],
     downsample |-> TRUE, downsampleFactor |-> Undefined,
     transform |-> TRUE, transformMatrix |-> Some(Matrix4Translation(512, 0, 0))] }

FilterParams ==
  { [radius |-> Undefined, minNeighbors |-> Undefined, factor |-> Undefined],
    [radius |-> Some(2048), minNeighbors |-> Some(1), factor |-> Some(2)] }

FilterTypes == {"noise", "downsample", "smooth"}

TransformArgs == {Undefined, Some(Matrix4Translation(512, 0, 0))}

\* (maxDepth, minPointsPerNode) as passed to the public buildOctree
OctreeArgs == {<<Undefined, Undefined>>, <<Some(1), Some(0)>>}

InitProcessor ==
  /\ inbox = <<>>
  /\ WorkerIdleInit
  /\ windowWorker \in BOOLEAN
  /\ ProcessorInitState
  /\ ExportManagerInit

NextProcessor ==
  \/ ProcInit
  \/ \E points \in PointSets : SetPointData(points)
  \/ \E options \in LocalOptions : ProcessData(options)
  \/ ProcessDataThen
  \/ \E filterType \in FilterTypes, params \in FilterParams : ApplyFilter(filterType, params)
  \/ \E transformMatrix \in TransformArgs : ApplyTransform(transformMatrix)
  \/ AnalyzeData
  \/ GenerateBuffer
  \/ \E args \in OctreeArgs : BuildOctree(args[1], args[2])
  \/ Terminate
  \/ WorkerReceive
  \/ OnMessage

SpecProcessor == InitProcessor /\ [][NextProcessor]_vars

\* the worker has handled every request and the processor every reply
Quiescent ==
  /\ inbox = <<>>
  /\ wpc = "idle"
  /\ toMain = <<>>
  /\ pendingThen = <<>>

\* C3: with a worker present, once the worker has handled the posted
\* requests and the processor has handled the worker's replies, no promise
\* returned by processData, applyFilter, applyTransform, analyzeData or
\* generateBuffer is still pending.
C3_PromisesSettle ==
  (worker /\ Quiescent) =>
    \A n \in 1..Len(promises) : promises[n].state # "pending"

\* C9: the cached octree (what buildOctree resolves with and getOctree
\* returns) was built from the current processed point set.
C9_OctreeIsCurrent ==
  octree # Undefined => octreeFrom[1].points = processedPointData[1]

(***************************************************************************)
(* SpecOctree: buildOctree on every point set of OctreePointSets           *)
(***************************************************************************)
\* most points of an octree input
MaxOctreePts == 3
\* the explicit maxDepth arguments are 0..MaxDepthArg
MaxDepthArg == 2
\* the explicit minPointsPerNode arguments are 0..MaxMinPointsArg
MaxMinPointsArg == 1

\* multiples of 2^(DefaultMaxDepth + 1); (512,512,512) is the midpoint of
\* the box spanned by the first two
OctreePool ==
  {Point(0, 0, 0), Point(1024, 1024, 1024), Point(512, 512, 512),
   Point(1024, 0, 0), Point(0, 512, 1024)}

OctreePointSets == UNION {[1..n -> OctreePool] : n \in 0..MaxOctreePts}

InitOctree ==
  /\ inbox = <<>>
  /\ WorkerIdleInit
  /\ windowWorker = FALSE
  /\ toMain = <<>>
  /\ inited = TRUE
  /\ worker = FALSE
  /\ \E points \in OctreePointSets :
       /\ rawPointData = Some(points)
       /\ processedPointData = Some(points)
  /\ octree = Undefined
  /\ octreeFrom = Undefined
  /\ processingCallbacks = NoCallbacks
  /\ promises = <<>>
  /\ pendingThen = <<>>
  /\ analysisResults = Undefined
  /\ calls = 0
  /\ ExportManagerInit

NextOctree ==
  \E maxDepthArg \in {Undefined} \cup {Some(d) : d \in 0..MaxDepthArg},
     minPointsArg \in {Undefined} \cup {Some(m) : m \in 0..MaxMinPointsArg} :
    BuildOctree(maxDepthArg, minPointsArg)

SpecOctree == InitOctree /\ [][NextOctree]_vars

RECURSIVE LeafPoints(_)
LeafPoints(node) ==
  IF node.children = <<>> THEN node.points
  ELSE Flatten([i \in 1..8 |-> LeafPoints(node.children[i])])

RECURSIVE InternalNodesEmpty(_)
InternalNodesEmpty(node) ==
  \/ node.children = <<>>
  \/ /\ node.points = <<>>
     /\ \A i \in 1..8 : InternalNodesEmpty(node.children[i])

Occurrences(s, x) == Cardinality({n \in 1..Len(s) : s[n] = x})

SameMultiset(s, t) ==
  /\ Len(s) = Len(t)
  /\ \A n \in 1..Len(s) : Occurrences(s, s[n]) = Occurrences(t, s[n])

\* C10: in the tree buildOctree returns, every node that has children holds
\* no points, and the points of the leaves together are exactly the input
\* points, each as often as in the input.
C10_LeavesPartitionInput ==
  octree # Undefined =>
    /\ InternalNodesEmpty(octree[1])
    /\ SameMultiset(LeafPoints(octree[1]), octreeFrom[1].points)

\* a tree of three points whose root and one child of the root were both
\* subdivided
C10_Witness ==
  /\ octree # Undefined
  /\ Len(octreeFrom[1].points) = 3
  /\ octree[1].children # <<>>
  /\ \E i \in 1..8 :
       /\ octree[1].children[i].children # <<>>
       /\ \E j \in 1..8 : octree[1].children[i].children[j].points # <<>>
  /\ \E i \in 1..8 : octree[1].children[i].points # <<>>

(***************************************************************************)
(* SpecStages: one single-stage request ('filter', 'downsample' or         *)
(* 'transform') handled by the worker, and, on the page, the local noise   *)
(* filter of a processor without a worker applied to the same points.      *)
(***************************************************************************)
\* most points of a stage's input
MaxStagePts == 3

\* the points of a buffer, as triples
PointsOf(pointData) ==
  [n \in 1..NumPoints(pointData) |->
     <<pointData[3 * n - 2], pointData[3 * n - 1], pointData[3 * n]>>]

\* the same points as the objects {x, y, z} the processor holds
PointRecords(pointData) ==
  [n \in 1..NumPoints(pointData) |->
     Point(pointData[3 * n - 2], pointData[3 * n - 1], pointData[3 * n])]

BuffersOf(pool) == {Flatten(ps) : ps \in UNION {[1..n -> pool] : n \in 0..MaxStagePts}}

\* (0,0,0), (10,0,0), (0,10,0) and (3,4,0), which lies at distance 5 exactly
FilterPool == {<<0, 0, 0>>, <<1000, 0, 0>>, <<0, 1000, 0>>, <<300, 400, 0>>}

\* the options of a 'filter' request; the worker reads threshold and method
FilterConfig(method, threshold, maxDistance, minNeighbors) ==
  [method |-> method, threshold |-> threshold, maxDistance |-> maxDistance,
   minNeighbors |-> minNeighbors]

FilterConfigs ==
  { FilterConfig(Some("distance"), Some(500), Undefined, Undefined),
    FilterConfig(Some("distance"), Some(Infinity), Undefined, Undefined),
    FilterConfig(Some("distance"), Undefined, Some(500), Undefined),
    FilterConfig(Some("distance"), Undefined, Some(Infinity), Undefined),
    FilterConfig(Some("radius"), Some(700), Undefined, Some(1)),
    FilterConfig(Some("radius"), Undefined, Undefined, Undefined),
    FilterConfig(Some("statistical"), Some(ONE), Undefined, Undefined),
    FilterConfig(Undefined, Undefined, Undefined, Undefined) }

\* multiples of 6.0, so that the mean of up to four of them is a whole
\* number of hundredths
VoxelPool == {<<0, 0, 0>>, <<600, 0, 0>>, <<-600, 0, 0>>, <<0, 600, 1200>>}

\* the 8 corners of the unit cube
UnitCube ==
  Flatten([n \in 1..8 |->
             <<100 * ((n - 1) % 2), 100 * (((n - 1) \div 2) % 2), 100 * ((n - 1) \div 4)>>])

DownsampleConfigs ==
  { DownsampleOption(Some("voxel"), Undefined, Some(200)),
    DownsampleOption(Some("voxel"), Undefined, Some(1200)),
    DownsampleOption(Some("voxel"), Undefined, Undefined),
    DownsampleOption(Some("random"), Some(ONE), Undefined),
    DownsampleOption(Some("random"), Some(150), Undefined),
    DownsampleOption(Some("random"), Some(50), Undefined),
    DownsampleOption(Undefined, Undefined, Undefined) }

TransformPool == {<<0, 0, 0>>, <<100, 0, 0>>, <<0, 200, 400>>}

\* the identity with matrix[15] = 2: the homogeneous w of every point is 2
HalfScale == <<1,0,0,0, 0,1,0,0, 0,0,1,0, 0,0,0,2>>

TransformConfigs ==
  { TransformOption(Undefined),
    TransformOption(Some(Identity)),
    TransformOption(Some(Matrix4Translation(100, 0, 0))),
    TransformOption(Some(RowTranslation(100, 0, 0))),
    TransformOption(Some(HalfScale)) }

StageCaseRequests ==
  {Request("filter", b, o) : b \in BuffersOf(FilterPool), o \in FilterConfigs}
  \cup {Request("downsample", b, o) :
          b \in BuffersOf(VoxelPool) \cup {UnitCube}, o \in DownsampleConfigs}
  \cup {Request("transform", b, o) : b \in BuffersOf(TransformPool), o \in TransformConfigs}

\* params of applyFilter('noise', params)
NoiseParams ==
  { [radius |-> Undefined, minNeighbors |-> Undefined, factor |-> Undefined],
    [radius |-> Some(700), minNeighbors |-> Some(1), factor |-> Undefined],
    [radius |-> Some(1100), minNeighbors |-> Some(2), factor |-> Undefined] }

\* setPointData(points) was called on a processor that has no worker
InitStages ==
  /\ \E m \in StageCaseRequests :
       /\ inbox = <<m>>
       /\ rawPointData = Some(PointRecords(m.data))
       /\ processedPointData = Some(PointRecords(m.data))
  /\ WorkerIdleInit
  /\ windowWorker = FALSE
  /\ toMain = <<>>
  /\ inited = FALSE
  /\ worker = FALSE
  /\ octree = Undefined
  /\ octreeFrom = Undefined
  /\ processingCallbacks = NoCallbacks
  /\ promises = <<>>
  /\ pendingThen = <<>>
  /\ analysisResults = Undefined
  /\ calls = 0
  /\ ExportManagerInit

NextStages ==
  \/ WorkerReceive
  \/ FilterStage
  \/ DownsampleStage
  \/ TransformStage
  \/ \E params \in NoiseParams : ApplyFilter("noise", params)

SpecStages == InitStages /\ [][NextStages]_vars

\* the worker has run the stage `stage` of a single-stage request
StageDone(stage) ==
  /\ wmsg # Undefined
  /\ wmsg[1].cmd = stage
  /\ Len(stageLog) = 1
  /\ ~stageLog[1].threw

(***************************************************************************)
(* Properties of the filter stage (SpecStages)                             *)
(***************************************************************************)
\* the method filterPointCloud dispatches on, and the value it hands to the
\* filter function as maxDistance / radius / stdDevMultiplier
FilterMethodOf(options) == Default(options.method, "statistical")
FilterArgumentOf(options) == Default(options.threshold, MIN_DISTANCE)

\* the filter stage ran the distance filter
DistanceFilterDone ==
  /\ StageDone("filter")
  /\ FilterMethodOf(wmsg[1].options) \notin {"statistical", "radius"}

\* x*x + y*y + z*z <= d*d for the point p = <<x, y, z>>
AtMostFromOrigin(p, d) ==
  d = Infinity \/ (d >= 0 /\ p[1] * p[1] + p[2] * p[2] + p[3] * p[3] <= d * d)

ScenarioPoints == <<0, 0, 0, 1000, 0, 0, 0, 1000, 0>>

\* C11: the distance filter, run with the bound maxDistance, returns exactly
\* the input points with x*x + y*y + z*z <= maxDistance*maxDistance, in their
\* order; on (0,0,0), (10,0,0), (0,10,0) with maxDistance 5 it returns
\* (0,0,0) alone.
C11_DistanceFilterKeepsWithin ==
  DistanceFilterDone =>
    LET maxDistance == FilterArgumentOf(wmsg[1].options)
    IN /\ PointsOf(stageLog[1].output) =
            SelectSeq(PointsOf(stageLog[1].input),
                      LAMBDA p : AtMostFromOrigin(p, maxDistance))
       /\ (stageLog[1].input = ScenarioPoints /\ maxDistance = 500
             => stageLog[1].output = <<0, 0, 0>>)

\* the scenario of the specification: (0,0,0), (10,0,0), (0,10,0) filtered
\* with the bound 5
C11_Witness ==
  /\ DistanceFilterDone
  /\ stageLog[1].input = ScenarioPoints
  /\ FilterArgumentOf(wmsg[1].options) = 500
  /\ stageLog[1].output = <<0, 0, 0>>

\* C12: a 'filter' request with method 'distance' and maxDistance Infinity
\* returns its input unchanged.
C12_InfinityKeepsAll ==
  (/\ StageDone("filter")
   /\ wmsg[1].options.method = Some("distance")
   /\ wmsg[1].options.maxDistance = Some(Infinity))
    => stageLog[1].output = stageLog[1].input

\* s is t with some elements left out
RECURSIVE IsSubsequence(_, _)
IsSubsequence(s, t) ==
  IF s = <<>> THEN TRUE
  ELSE IF t = <<>> THEN FALSE
  ELSE IF Head(s) = Head(t) THEN IsSubsequence(Tail(s), Tail(t))
  ELSE IsSubsequence(s, Tail(t))

\* C13: whatever the method, the output of the worker's filter stage is a
\* subsequence of its input, and the points left by the local noise filter
\* are a subsequence of the points it was given: only input points, in
\* their input order.
C13_FilterOutputIsSubsequence ==
  /\ (StageDone("filter") =>
        IsSubsequence(PointsOf(stageLog[1].output), PointsOf(stageLog[1].input)))
  /\ ((rawPointData # Undefined /\ processedPointData # Undefined) =>
        IsSubsequence(processedPointData[1], rawPointData[1]))

\* of three points the distance filter dropped the second, and so did the
\* local noise filter
C13_Witness ==
  /\ StageDone("filter")
  /\ wmsg[1].options.method = Some("distance")
  /\ Len(stageLog[1].input) = 9
  /\ PointsOf(stageLog[1].output) =
       <<PointsOf(stageLog[1].input)[1], PointsOf(stageLog[1].input)[3]>>
  /\ promises # <<>>
  /\ Last(promises) = Promise("applyFilter", "resolved")
  /\ Len(rawPointData[1]) = 3
  /\ processedPointData[1] = <<rawPointData[1][1], rawPointData[1][3]>>
  /\ rawPointData[1][2] \notin {rawPointData[1][1], rawPointData[1][3]}

\* minNeighbors = 2, the default of radiusOutlierRemoval
RADIUS_MIN_NEIGHBORS == 2

\* the elements of s at the positions that satisfy Keep, in order
KeptAt(s, Keep(_)) ==
  LET idx == SelectSeq([i \in 1..Len(s) |-> i], Keep)
  IN [k \in 1..Len(idx) |-> s[idx[k]]]

\* the number of other points of ps within distance radius of ps[i]
NeighboursWithin(ps, i, radius) ==
  Cardinality({j \in 1..Len(ps) :
                 /\ j # i
                 /\ radius >= 0
                 /\ (ps[i][1] - ps[j][1]) * (ps[i][1] - ps[j][1])
                    + (ps[i][2] - ps[j][2]) * (ps[i][2] - ps[j][2])
                    + (ps[i][3] - ps[j][3]) * (ps[i][3] - ps[j][3]) <= radius * radius})

\* C14: the radius filter returns exactly the points that have at least
\* minNeighbors other points within distance radius.
C14_RadiusKeepsByNeighbours ==
  (StageDone("filter") /\ FilterMethodOf(wmsg[1].options) = "radius") =>
    LET ps == PointsOf(stageLog[1].input)
        radius == FilterArgumentOf(wmsg[1].options)
        minNeighbors == Default(wmsg[1].options.minNeighbors, RADIUS_MIN_NEIGHBORS)
    IN PointsOf(stageLog[1].output) =
         KeptAt(ps, LAMBDA i : NeighboursWithin(ps, i, radius) >= minNeighbors)

\* the points lie on the x axis at whole coordinates: their distances are
\* whole numbers
OnXAxis(ps) ==
  \A i \in 1..Len(ps) : ps[i][2] = 0 /\ ps[i][3] = 0 /\ ps[i][1] % ONE = 0

\* the sum of the distances from ps[i] to the other points, in whole units;
\* the mean neighbour distance of ps[i] is SumDistances / (n - 1)
RECURSIVE SumDistancesFrom(_, _, _)
SumDistancesFrom(ps, i, j) ==
  IF j > Len(ps) THEN 0
  ELSE (IF ps[i][1] >= ps[j][1] THEN ps[i][1] - ps[j][1] ELSE ps[j][1] - ps[i][1]) \div ONE
       + SumDistancesFrom(ps, i, j + 1)

\* the sum of a sequence of numbers
RECURSIVE SeqSum(_)
SeqSum(s) == IF s = <<>> THEN 0 ELSE Head(s) + SeqSum(Tail(s))

\* n (n - 1) (mean_i - global_mean), with n = Len(ps)
Deviation(ps, i) ==
  Len(ps) * SumDistancesFrom(ps, i, 1)
  - SeqSum([j \in 1..Len(ps) |-> SumDistancesFrom(ps, j, 1)])

\* mean_i > global_mean + stdDevMultiplier * global_stddev, with the
\* standard deviation over all n points and stdDevMultiplier in hundredths:
\* both sides times n (n - 1), then squared
ExceedsBound(ps, i, stdDevMultiplier) ==
  /\ Deviation(ps, i) > 0
  /\ ONE * ONE * Len(ps) * Deviation(ps, i) * Deviation(ps, i)
       > stdDevMultiplier * stdDevMultiplier
           * SeqSum([j \in 1..Len(ps) |-> Deviation(ps, j) * Deviation(ps, j)])

\* C15: the statistical filter returns exactly the points whose mean
\* neighbour distance is at most global_mean + stdDevMultiplier *
\* global_stddev, mean and deviation taken over all input points.
C15_StatisticalRejectsOutliers ==
  (/\ StageDone("filter")
   /\ FilterMethodOf(wmsg[1].options) = "statistical"
   /\ Len(stageLog[1].input) >= 6
   /\ OnXAxis(PointsOf(stageLog[1].input)))
    => LET ps == PointsOf(stageLog[1].input)
           stdDevMultiplier == FilterArgumentOf(wmsg[1].options)
       IN PointsOf(stageLog[1].output) =
            KeptAt(ps, LAMBDA i : ~ExceedsBound(ps, i, stdDevMultiplier))

(***************************************************************************)
(* Properties of the downsample stage (SpecStages)                         *)
(***************************************************************************)
DownsampleMethodOf(options) == Default(options.method, "random")

\* the downsample stage ran randomDownsampling / voxelDownsampling
RandomDownsamplingDone ==
  StageDone("downsample") /\ DownsampleMethodOf(wmsg[1].options) # "voxel"
VoxelDownsamplingDone ==
  StageDone("downsample") /\ DownsampleMethodOf(wmsg[1].options) = "voxel"

\* C16: random downsampling with rate >= 1.0 returns its input: the same
\* points in the same order.
C16_FullRateIsIdentity ==
  (RandomDownsamplingDone /\ Default(wmsg[1].options.rate, DEFAULT_SAMPLING_RATE) >= ONE)
    => stageLog[1].output = stageLog[1].input

\* three points downsampled at rate 1.0
C16_Witness ==
  /\ RandomDownsamplingDone
  /\ wmsg[1].options.rate = Some(ONE)
  /\ Len(stageLog[1].input) = 9
  /\ stageLog[1].output = stageLog[1].input

\* options.voxelSize || 0.05
VoxelSizeOf(options) ==
  IF options.voxelSize = Undefined \/ options.voxelSize[1] = 0
    THEN DEFAULT_VOXEL_SIZE ELSE options.voxelSize[1]

\* (floor(x / voxelSize), floor(y / voxelSize), floor(z / voxelSize))
VoxelOf(p, voxelSize) == <<p[1] \div voxelSize, p[2] \div voxelSize, p[3] \div voxelSize>>

\* the sum of coordinate c over the points of ps that lie in voxel
SumInVoxel(ps, voxel, voxelSize, c) ==
  SeqSum([i \in 1..Len(ps) |-> IF VoxelOf(ps[i], voxelSize) = voxel THEN ps[i][c] ELSE 0])

CountInVoxel(ps, voxel, voxelSize) ==
  Cardinality({i \in 1..Len(ps) : VoxelOf(ps[i], voxelSize) = voxel})

\* C17: voxel downsampling returns one point for each occupied voxel, the
\* arithmetic mean of the input points of that voxel, and nothing else; the
\* 8 corners of the unit cube with voxelSize 2.0 give the single point
\* (0.5, 0.5, 0.5).
C17_VoxelCentroids ==
  VoxelDownsamplingDone =>
    LET voxelSize == VoxelSizeOf(wmsg[1].options)
        ps == PointsOf(stageLog[1].input)
        out == PointsOf(stageLog[1].output)
        occupied == {VoxelOf(ps[i], voxelSize) : i \in 1..Len(ps)}
    IN /\ Len(out) = Cardinality(occupied)
       /\ \A voxel \in occupied :
            \E n \in 1..Len(out) :
              \A c \in 1..3 :
                CountInVoxel(ps, voxel, voxelSize) * out[n][c]
                  = SumInVoxel(ps, voxel, voxelSize, c)
       /\ (stageLog[1].input = UnitCube /\ voxelSize = 200
             => stageLog[1].output = <<50, 50, 50>>)

\* the unit cube scenario
C17_Witness ==
  /\ VoxelDownsamplingDone
  /\ stageLog[1].input = UnitCube
  /\ VoxelSizeOf(wmsg[1].options) = 200
  /\ stageLog[1].output = <<50, 50, 50>>

\* the permutations of 1..n
OrdersOf(n) ==
  {f \in [1..n -> 1..n] : \A i, j \in 1..n : i # j => f[i] # f[j]}

\* the buffer of the points ps in the order f
Permuted(ps, f) == Flatten([i \in 1..Len(ps) |-> ps[f[i]]])

Matrix4TransformPoint(matrix, point) ==
  LET x == point.x * M(matrix, 0) + point.y * M(matrix, 4) + point.z * M(matrix, 8) + M(matrix, 12)
      y == point.x * M(matrix, 1) + point.y * M(matrix, 5) + point.z * M(matrix, 9) + M(matrix, 13)
      z == point.x * M(matrix, 2) + point.y * M(matrix, 6) + point.z * M(matrix, 10) + M(matrix, 14)
      w == point.x * M(matrix, 3) + point.y * M(matrix, 7) + point.z * M(matrix, 11) + M(matrix, 15)
  IN Point(x \div w, y \div w, z \div w)

\* no perspective entries: w is matrix[15] for every point
Affine(matrix) == M(matrix, 3) = 0 /\ M(matrix, 7) = 0 /\ M(matrix, 11) = 0

\* C19: the transform stage returns as many points as it was given, and
\* output point i is Matrix4.transformPoint of input point i with the given
\* matrix (the homogeneous product divided by w).
C19_TransformIsApplyMatrix ==
  (StageDone("transform") /\ Affine(Default(wmsg[1].options.matrix, Identity))) =>
    LET matrix == Default(wmsg[1].options.matrix, Identity)
        ps == PointRecords(stageLog[1].input)
        out == PointRecords(stageLog[1].output)
    IN /\ Len(out) = Len(ps)
       /\ \A i \in 1..Len(ps) : out[i] = Matrix4TransformPoint(matrix, ps[i])

(***************************************************************************)
(* Depth of the octree (SpecOctree)                                        *)
(***************************************************************************)
\* below node, which lies at depth `depth`: a node with children lies above
\* maxDepth and holds more than minPointsPerNode points in its leaves, and a
\* leaf with more than minPointsPerNode points lies at maxDepth
RECURSIVE LeafRule(_, _, _, _)
LeafRule(node, depth, maxDepth, minPointsPerNode) ==
  IF node.children = <<>>
    THEN Len(node.points) > minPointsPerNode => depth = maxDepth
    ELSE /\ depth < maxDepth
         /\ Len(LeafPoints(node)) > minPointsPerNode
         /\ \A i \in 1..8 :
              LeafRule(node.children[i], depth + 1, maxDepth, minPointsPerNode)

\* C20: with the root at depth 0, a node of the tree is a leaf exactly when
\* its depth is maxDepth or it holds at most minPointsPerNode points: no node
\* at depth maxDepth or deeper has children, and a leaf with more than
\* minPointsPerNode points is at depth maxDepth.
C20_LeafIffDepthOrFew ==
  octree # Undefined =>
    LeafRule(octree[1], 0,
             Default(octreeFrom[1].maxDepth, DefaultMaxDepth),
             Default(octreeFrom[1].minPointsPerNode, DefaultMinPointsPerNode))

(***************************************************************************)
(* Placement of the points and bounding boxes of the octree (SpecOctree)   *)
(***************************************************************************)
\* the points stored in the leaves below and including node
RECURSIVE PointsUnder(_)
PointsUnder(node) ==
  IF node.children = <<>> THEN {node.points[n] : n \in 1..Len(node.points)}
  ELSE UNION {PointsUnder(node.children[i]) : i \in 1..Len(node.children)}

\* every subdivided node below and including node has 8 children, and the
\* points under child i lie on the side of the node's midpoint that the bits
\* of i name: high iff the coordinate is strictly greater
RECURSIVE PlacedByMidpoint(_)
PlacedByMidpoint(node) ==
  \/ node.children = <<>>
  \/ LET bb == node.boundingBox[1]
     IN /\ Len(node.children) = 8
        /\ \A i \in 1..8 :
             /\ PlacedByMidpoint(node.children[i])
             /\ \A p \in PointsUnder(node.children[i]) :
                  /\ Bit1(i - 1) <=> (p.x > Mid(bb.min.x, bb.max.x))
                  /\ Bit2(i - 1) <=> (p.y > Mid(bb.min.y, bb.max.y))
                  /\ Bit4(i - 1) <=> (p.z > Mid(bb.min.z, bb.max.z))

\* C21: a subdivided node has exactly 8 children and each of its points is
\* in exactly one of them: the child whose index has the x, y, z bit set iff
\* the point's coordinate is strictly greater than the midpoint of the node's
\* bounding box; a coordinate equal to the midpoint goes to the low child.
C21_EightChildrenTiesLow ==
  octree # Undefined =>
    /\ PlacedByMidpoint(octree[1])
    /\ SameMultiset(LeafPoints(octree[1]), octreeFrom[1].points)

\* a subdivided root with a point at the very midpoint of its bounding box,
\* which lies in child 0
C21_Witness ==
  /\ octree # Undefined
  /\ octree[1].children # <<>>
  /\ LET bb == octree[1].boundingBox[1]
         mid == Point(Mid(bb.min.x, bb.max.x), Mid(bb.min.y, bb.max.y),
                      Mid(bb.min.z, bb.max.z))
     IN /\ bb.min.x < bb.max.x
        /\ mid \in PointsUnder(octree[1].children[1])

\* C22: for a non-empty input the root's bounding box is the axis-aligned
\* bounding box of the input: on each axis min is the least and max the
\* greatest coordinate of the input points.
C22_RootBoxIsInputBox ==
  (octree # Undefined /\ octreeFrom[1].points # <<>>) =>
    LET ps == octreeFrom[1].points
        bb == octree[1].boundingBox[1]
        xs == {ps[n].x : n \in 1..Len(ps)}
        ys == {ps[n].y : n \in 1..Len(ps)}
        zs == {ps[n].z : n \in 1..Len(ps)}
    IN /\ bb.min.x \in xs /\ \A v \in xs : bb.min.x <= v
       /\ bb.min.y \in ys /\ \A v \in ys : bb.min.y <= v
       /\ bb.min.z \in zs /\ \A v \in zs : bb.min.z <= v
       /\ bb.max.x \in xs /\ \A v \in xs : bb.max.x >= v
       /\ bb.max.y \in ys /\ \A v \in ys : bb.max.y >= v
       /\ bb.max.z \in zs /\ \A v \in zs : bb.max.z >= v

\* a tree of three points none of which is a corner of the root's box
C22_Witness ==
  /\ octree # Undefined
  /\ Len(octreeFrom[1].points) = 3
  /\ \A n \in 1..3 :
       /\ octreeFrom[1].points[n] # octree[1].boundingBox[1].min
       /\ octreeFrom[1].points[n] # octree[1].boundingBox[1].max

InsideBox(p, bb) ==
  /\ bb.min.x <= p.x /\ p.x <= bb.max.x
  /\ bb.min.y <= p.y /\ p.y <= bb.max.y
  /\ bb.min.z <= p.z /\ p.z <= bb.max.z

\* below and including node: the points of a leaf lie in the leaf's box and
\* the box of a child lies in the box of its parent
RECURSIVE BoxesNested(_)
BoxesNested(node) ==
  IF node.children = <<>>
    THEN \A n \in 1..Len(node.points) : InsideBox(node.points[n], node.boundingBox[1])
    ELSE \A i \in 1..8 :
           /\ InsideBox(node.children[i].boundingBox[1].min, node.boundingBox[1])
           /\ InsideBox(node.children[i].boundingBox[1].max, node.boundingBox[1])
           /\ BoxesNested(node.children[i])

\* C30: in the tree of a non-empty input every point stored in a leaf lies
\* inside that leaf's bounding box, and every child's bounding box is
\* contained in its parent's.
C30_PointsInsideLeafBoxes ==
  (octree # Undefined /\ octreeFrom[1].points # <<>>) => BoxesNested(octree[1])

\* a leaf two levels below the root that holds a point, in a tree whose
\* root box is not a single point
C30_Witness ==
  /\ octree # Undefined
  /\ octree[1].children # <<>>
  /\ octree[1].boundingBox[1].min # octree[1].boundingBox[1].max
  /\ \E i, j \in 1..8 :
       /\ octree[1].children[i].children # <<>>
       /\ octree[1].children[i].children[j].points # <<>>
       /\ octree[1].children[i].children[j].boundingBox[1].min.x
            > octree[1].boundingBox[1].min.x

(***************************************************************************)
(* ExportManager: one export at a time (SpecExport)                        *)
(***************************************************************************)
CustomSettings ==
  {NoSettings, [format |-> "e57"], [metadata |-> [notes |-> "n"]],
   [filename |-> "out.ply"]}

NewSettings == {[format |-> "e57"], [quality |-> "low"], [metadata |-> [notes |-> "m"]]}

InitExport ==
  /\ inbox = <<>>
  /\ WorkerIdleInit
  /\ windowWorker \in BOOLEAN
  /\ ProcessorInitState
  /\ ExportManagerInit

NextExport ==
  \/ \E customSettings \in CustomSettings, now \in 1..MaxExportId, cloneable \in BOOLEAN :
       ExportCall(StartExport(customSettings, now, cloneable))
  \/ ExportCall(CancelExport)
  \/ \E newSettings \in NewSettings : ExportCall(UpdateSettings(newSettings))
  \/ ExportWorkerReceive
  \/ ExportOnMessage

SpecExport == InitExport /\ [][NextExport]_vars

\* the step is a call of the API operation op
IsExportCall(op) == exportCalls' = exportCalls + 1 /\ exportLast'.op = op

\* C29: while an export is active, startExport returns {success: false}
\* and posts nothing and changes neither activeExport nor exportSettings, and
\* updateSettings returns false and changes nothing; activeExport is cleared
\* only by a completion or error message of the worker or by cancelExport.
C29_OneActiveExport ==
  [][/\ (activeExport # Undefined /\ IsExportCall("startExport")) =>
          /\ exportLast'.result[1].success = FALSE
          /\ UNCHANGED <<activeExport, exportSettings, exportInbox, exportOutbox>>
     /\ (activeExport # Undefined /\ IsExportCall("updateSettings")) =>
          /\ exportLast'.result[1] = FALSE
          /\ UNCHANGED <<activeExport, exportSettings, exportInbox, exportOutbox>>
     /\ (activeExport # Undefined /\ activeExport' = Undefined) =>
          \/ IsExportCall("cancelExport")
          \/ /\ exportLast'.op = "onmessage"
             /\ exportLast'.result[1] \in {"complete", "error"}]_vars

\* startExport has just been refused because an export is active
C29_Witness ==
  /\ activeExport # Undefined
  /\ exportLast.op = "startExport"
  /\ exportLast.result[1].success = FALSE
  /\ exportLast.result[1].error = "Export already in progress"

\* C23: whatever the filter method and its parameters, the filter stage
\* returns an input of fewer than 2 points unchanged: a single point is
\* never removed.
C23_FewPointsUnchanged ==
  (StageDone("filter") /\ NumPoints(stageLog[1].input) < 2)
    => stageLog[1].output = stageLog[1].input

(***************************************************************************)
(* Progress reports of the per-point loops on large buffers (SpecProgress) *)
(* A buffer is described by what the reports depend on: its length and the *)
(* number of voxels its points cycle through (point n lies in voxel        *)
(* n mod spread).  An action is one whole loop of the stage function.      *)
(***************************************************************************)
\* most whole chunks of points in a buffer
MaxChunks == 1

LoopCall(fn, len, spread, rate) ==
  [fn |-> fn, len |-> len, spread |-> spread, rate |-> rate, pc |-> "called"]

ProgressLengths ==
  {0, 3, 6, 3003, 99999, 100002, 300000}
  \cup {3 * k * CHUNK_SIZE + 3 : k \in 1..MaxChunks}

VoxelSpreads == {1, 999, 1000, 1001, 2000}

LoopCalls ==
  {LoopCall(fn, len, 1, ONE) :
     fn \in {"distanceFilter", "applyTransformation"}, len \in ProgressLengths}
  \cup {LoopCall("randomDownsampling", len, 1, rate) :
          len \in ProgressLengths, rate \in {DEFAULT_SAMPLING_RATE, ONE}}
  \cup {LoopCall("voxelDownsampling", len, spread, ONE) :
          len \in ProgressLengths, spread \in VoxelSpreads}

InitProgress ==
  /\ inbox = <<>>
  /\ wpc = "running"
  /\ wmsg = Undefined
  /\ wdata = <<>>
  /\ runLog = <<>>
  /\ stageLog = <<>>
  /\ cancelSeen = FALSE
  /\ wtodo = <<>>
  /\ \E call \in LoopCalls : loop = Some(call)
  /\ windowWorker = TRUE
  /\ ProcessorInitState
  /\ ExportManagerInit

InLoop(fn, pc) == loop # Undefined /\ loop[1].fn = fn /\ loop[1].pc = pc

\* the loop of fn has run to its end and posted msgs
LoopDone(msgs, pc) ==
  /\ runLog' = runLog \o msgs
  /\ loop' = Some([loop[1] EXCEPT !.pc = pc])
  /\ UNCHANGED <<inbox, wpc, wmsg, wdata, stageLog, cancelSeen, wtodo, toMain,
                 pstate, evars>>

DistanceFilterLoop ==
  /\ InLoop("distanceFilter", "called")
  /\ LoopDone(LoopProgress(0, loop[1].len, "filtering"), "done")

RandomDownsamplingLoop ==
  /\ InLoop("randomDownsampling", "called")
  /\ LoopDone(IF loop[1].rate >= ONE THEN <<>>
              ELSE LoopProgress(0, loop[1].len, "downsampling"), "done")

ApplyTransformationLoop ==
  /\ InLoop("applyTransformation", "called")
  /\ LoopDone(LoopProgress(0, loop[1].len, "transforming"), "done")

\* voxels.size after the first loop
TotalVoxels(call) == Min2(call.len \div 3, call.spread)

VoxelFirstLoop ==
  /\ InLoop("voxelDownsampling", "called")
  /\ LoopDone(LoopProgress(0, loop[1].len, "voxel-downsampling"), "centroids")

VoxelCentroidLoop ==
  /\ InLoop("voxelDownsampling", "centroids")
  /\ LoopDone(CentroidProgress(1, TotalVoxels(loop[1])), "done")

NextProgress ==
  \/ DistanceFilterLoop
  \/ RandomDownsamplingLoop
  \/ ApplyTransformationLoop
  \/ VoxelFirstLoop
  \/ VoxelCentroidLoop

SpecProgress == InitProgress /\ [][NextProgress]_vars

\* a / b < c / d for the progress values <<a, b>> and <<c, d>>
ProgressLess(p, q) ==
  IF p[2] = q[2] THEN p[1] < q[1] ELSE p[1] * q[2] < q[1] * p[2]

\* C24: within one stage function of one run, both loops of the voxel
\* downsampling included, the progress values of successive progress
\* messages are strictly increasing.
C24_ProgressIncreases ==
  \A k \in 1..(Len(runLog) - 1) :
    ProgressLess(runLog[k].progress[1], runLog[k + 1].progress[1])

\* the progress messages the per-point loop has posted
PointLoopReports == SelectSeq(runLog, LAMBDA m : m.text # Some("voxel-centroid"))

\* C25: a per-point loop posts a progress message only at a buffer index
\* that is a multiple of CHUNK_SIZE; so for a buffer longer than one chunk
\* there are fewer progress messages than points, and two consecutive
\* progress messages are at least CHUNK_SIZE buffer elements apart.
C25_ProgressOncePerChunk ==
  loop # Undefined =>
    /\ \A k \in 1..Len(PointLoopReports) :
         PointLoopReports[k].progress[1][1] % CHUNK_SIZE = 0
    /\ loop[1].len > CHUNK_SIZE =>
         /\ Len(PointLoopReports) < loop[1].len \div 3
         /\ \A k \in 1..(Len(PointLoopReports) - 1) :
              PointLoopReports[k + 1].progress[1][1]
                - PointLoopReports[k].progress[1][1] >= CHUNK_SIZE

\* a finished distance filter loop over more than a chunk of points, with
\* two progress messages
C25_Witness ==
  /\ InLoop("distanceFilter", "done")
  /\ loop[1].len > 3 * CHUNK_SIZE
  /\ Len(PointLoopReports) >= 2

(***************************************************************************)
(* Worker transform and main-thread fallback (SpecStages)                  *)
(***************************************************************************)
\* w = matrix[3]*x + matrix[7]*y + matrix[11]*z + matrix[15] is 1 for every point
UnitW(matrix) == Affine(matrix) /\ M(matrix, 15) = 1

\* C26: for a matrix whose w is 1 for every point (Matrix4.translation is
\* one) the worker's transform stage returns the points that the main-thread
\* fallback applyTransformLocal returns for the same points and matrix.
C26_WorkerMatchesFallback ==
  (/\ StageDone("transform")
   /\ wmsg[1].options.matrix # Undefined
   /\ UnitW(wmsg[1].options.matrix[1]))
    => PointRecords(stageLog[1].output)
         = applyTransformLocal(PointRecords(stageLog[1].input), wmsg[1].options.matrix)

(***************************************************************************)
(* Outstanding requests and late results (SpecProcessor)                   *)
(***************************************************************************)
\* C27: two requests that are outstanding at the same time never share a
\* requestId: a callback stored in processingCallbacks is not overwritten
\* by a later request, it stays as stored until its reply deletes it.
C27_CallbacksNotOverwritten ==
  [][\A id \in DOMAIN processingCallbacks :
       id \in DOMAIN processingCallbacks'
         => processingCallbacks'[id] = processingCallbacks[id]]_vars

\* what processData can produce from points
DerivedFrom(points) == {processDataLocally(points, o) : o \in LocalOptions}

====
